---- MODULE Spec2Model ----
(***************************************************************************)
(* Air-cargo conversational booking assistant (backend/).                  *)
(*                                                                         *)
(* Representation                                                          *)
(*   - a Python str is a sequence of one-character strings, so that len,   *)
(*     upper, lower, strip, isalpha, `in` and the regular expression of    *)
(*     the booking id are computed and not assumed;                        *)
(*   - Optional[T] is a sequence of length 0 (None) or 1 (the value);      *)
(*   - a dict / pydantic model with optional fields is a function whose    *)
(*     DOMAIN holds the keys that carry a non-None value;                  *)
(*   - weights are integers in 1/100 tonne, volumes integers in m3, money  *)
(*     integers in cents, prices per kg integers in cents.                 *)
(*   - a text built by an f-string is the pair <<fixed text, value>>; a    *)
(*     long literal message is written by its first sentence;              *)
(*   - the price breakdown of a quote (get_price_breakdown) is left out.   *)
(***************************************************************************)
EXTENDS Integers, Sequences, FiniteSets, TLC

VARIABLES
    bookings,   \* the bookings table: sequence of rows in insertion order
    routes,     \* the routes table: set of rows
    clock,      \* datetime.utcnow(), a logical clock that advances on a write
    today,      \* datetime.now().date() as <<year, month, day>>
    client,     \* what the caller carries between turns: accumulated_slots, confirmation_data
    req,        \* the request being served (None when idle), with the extractor's answer for it
    resp,       \* the outcome of serving req (None when idle)
    handlers    \* the handlers of the concurrent runs: worker -> its position and locals

vars == <<bookings, routes, clock, today, client, req, resp, handlers>>

None == <<>>
Some(x) == <<x>>
IsSome(o) == Len(o) = 1
Val(o) == o[1]
\* dict.get(key) / getattr(obj, key) on a mapping of the non-None entries
Get(m, k) == IF k \in DOMAIN m THEN Some(m[k]) ELSE None

(***************************************************************************)
(* Characters and the str methods the code uses                            *)
(***************************************************************************)
UpperChars == <<"A","B","C","D","E","F","G","H","I","J","K","L","M",
                "N","O","P","Q","R","S","T","U","V","W","X","Y","Z">>
LowerChars == <<"a","b","c","d","e","f","g","h","i","j","k","l","m",
                "n","o","p","q","r","s","t","u","v","w","x","y","z">>
DigitChars == <<"0","1","2","3","4","5","6","7","8","9">>

Range(s) == {s[i] : i \in DOMAIN s}
\* letters outside A-Z and a-z: one whose upper case is two letters, one without case
OtherLetters == {"ß", "語"}
IsLetter(c) == c \in Range(UpperChars) \cup Range(LowerChars) \cup OtherLetters
IsDigit(c) == c \in Range(DigitChars)
UpperChar(c) ==
    IF c \in Range(LowerChars)
    THEN UpperChars[CHOOSE i \in DOMAIN LowerChars : LowerChars[i] = c]
    ELSE c
LowerChar(c) ==
    IF c \in Range(UpperChars)
    THEN LowerChars[CHOOSE i \in DOMAIN UpperChars : UpperChars[i] = c]
    ELSE c
\* str.upper(): character by character, "ß" becoming "SS"
RECURSIVE Upper(_)
Upper(s) ==
    IF s = <<>> THEN <<>>
    ELSE (IF Head(s) = "ß" THEN <<"S","S">> ELSE <<UpperChar(Head(s))>>) \o Upper(Tail(s))
\* str.lower()
Lower(s) == [i \in DOMAIN s |-> LowerChar(s[i])]
\* str.isalpha(): non-empty and every character a letter
IsAlpha(s) == Len(s) > 0 /\ \A i \in DOMAIN s : IsLetter(s[i])
\* str.strip(): leading and trailing blanks removed
Strip(s) ==
    LET keep == {i \in DOMAIN s : s[i] # " "}
    IN  IF keep = {} THEN <<>>
        ELSE LET lo == CHOOSE i \in keep : \A j \in keep : i <= j
                 hi == CHOOSE i \in keep : \A j \in keep : j <= i
             IN  SubSeq(s, lo, hi)
\* `word in text` on two str
Contains(text, word) ==
    \E i \in 0..(Len(text) - Len(word)) : SubSeq(text, i + 1, i + Len(word)) = word
\* the decimal value of a str of digits
RECURSIVE DigitsValue(_)
DigitsValue(s) ==
    IF s = <<>> THEN 0
    ELSE 10 * DigitsValue(SubSeq(s, 1, Len(s) - 1))
         + (CHOOSE i \in DOMAIN DigitChars : DigitChars[i] = s[Len(s)]) - 1
AllDigits(s) == Len(s) > 0 /\ \A i \in DOMAIN s : IsDigit(s[i])

(***************************************************************************)
(* validation.py                                                           *)
(***************************************************************************)
VALID_CARGO_TYPES ==
    { <<"g","e","n","e","r","a","l">>,
      <<"p","e","r","i","s","h","a","b","l","e">>,
      <<"h","a","z","a","r","d","o","u","s">>,
      <<"v","e","h","i","c","l","e","s">>,
      <<"l","i","v","e","s","t","o","c","k">> }

\* city name -> airport code, as <<name, code>> pairs
LOCATION_MAPPINGS ==
    { << <<"n","e","w"," ","y","o","r","k">>, <<"J","F","K">> >>,
      << <<"n","y","c">>, <<"J","F","K">> >>,
      << <<"l","o","s"," ","a","n","g","e","l","e","s">>, <<"L","A","X">> >>,
      << <<"l","a">>, <<"L","A","X">> >>,
      << <<"c","h","i","c","a","g","o">>, <<"O","R","D">> >>,
      << <<"d","a","l","l","a","s">>, <<"D","F","W">> >>,
      << <<"a","t","l","a","n","t","a">>, <<"A","T","L">> >>,
      << <<"l","o","n","d","o","n">>, <<"L","H","R">> >>,
      << <<"p","a","r","i","s">>, <<"C","D","G">> >>,
      << <<"f","r","a","n","k","f","u","r","t">>, <<"F","R","A">> >>,
      << <<"t","o","k","y","o">>, <<"N","R","T">> >>,
      << <<"h","o","n","g"," ","k","o","n","g">>, <<"H","K","G">> >>,
      << <<"s","y","d","n","e","y">>, <<"S","Y","D">> >>,
      << <<"d","u","b","a","i">>, <<"D","X","B">> >>,
      << <<"m","u","m","b","a","i">>, <<"B","O","M">> >>,
      << <<"s","i","n","g","a","p","o","r","e">>, <<"S","I","N">> >>,
      << <<"s","h","a","n","g","h","a","i">>, <<"P","V","G">> >> }

\* dict lookup in a table of <<key, value>> pairs: Some(value) or None
Lookup(table, key) ==
    IF \E p \in table : p[1] = key
    THEN Some((CHOOSE p \in table : p[1] = key)[2])
    ELSE None

\* LOCATION_MAPPINGS[location_lower] when present, else location.upper()
MappedOrUpper(mapped, location) == IF mapped # None THEN Val(mapped) ELSE Upper(location)

normalize_location(location) ==
    IF Len(location) = 3 /\ IsAlpha(location) THEN Upper(location)
    ELSE MappedOrUpper(Lookup(LOCATION_MAPPINGS, Strip(Lower(location))), location)

\* every validator returns [valid, value, error]; value is None where the code
\* returns no normalized value
Accept(v) == [valid |-> TRUE, value |-> v, error |-> ""]
Reject(e) == [valid |-> FALSE, value |-> None, error |-> e]

\* lines 55-59
CheckCode(normalized) ==
    IF Len(normalized) # 3 \/ ~IsAlpha(normalized)
    THEN Reject("Invalid location")
    ELSE Accept(Some(normalized))

validate_location(location) ==
    IF location = None \/ Val(location) = <<>> \/ Strip(Val(location)) = <<>>
    THEN Reject("Location cannot be empty")
    ELSE CheckCode(normalize_location(Val(location)))

MinWeight == 10       \* 0.1 tonnes
MaxWeight == 10000    \* 100 tonnes
\* the float that is not a number: every comparison with it is false
NaN == -999999
validate_weight(weight) ==
    IF weight = None THEN Reject("Weight is required")
    ELSE IF Val(weight) # NaN /\ Val(weight) <= 0 THEN Reject("Weight must be greater than 0")
    ELSE IF Val(weight) # NaN /\ Val(weight) < MinWeight
    THEN Reject("Minimum weight is 0.1 tonnes (100 kg)")
    ELSE IF Val(weight) # NaN /\ Val(weight) > MaxWeight
    THEN Reject("Maximum weight is 100 tonnes. For larger shipments, please contact us directly.")
    ELSE Accept(None)

MaxVolume == 1000
validate_volume(volume) ==
    IF volume = None THEN Accept(None)
    ELSE IF Val(volume) <= 0 THEN Reject("Volume must be greater than 0")
    ELSE IF Val(volume) > MaxVolume THEN Reject("Maximum volume is 1000 cubic meters")
    ELSE Accept(None)

IsLeap(y) == (y % 4 = 0 /\ y % 100 # 0) \/ y % 400 = 0
DaysInMonth(y, m) ==
    IF m = 2 THEN (IF IsLeap(y) THEN 29 ELSE 28)
    ELSE IF m \in {4, 6, 9, 11} THEN 30 ELSE 31
RECURSIVE DaysBeforeMonth(_, _)
DaysBeforeMonth(y, m) ==
    IF m = 1 THEN 0 ELSE DaysBeforeMonth(y, m - 1) + DaysInMonth(y, m - 1)
\* the days before 1 January of year y + 1
DaysBeforeYear(y) == y * 365 + (y \div 4) - (y \div 100) + (y \div 400)
\* date.toordinal()
Ordinal(d) == DaysBeforeYear(d[1] - 1) + DaysBeforeMonth(d[1], d[2]) + d[3]

\* the date of a year, month and day, when there is one
MakeDate(y, m, d) ==
    IF y >= 1 /\ m \in 1..12 /\ d >= 1 /\ d <= DaysInMonth(y, m)
    THEN Some(<<y, m, d>>)
    ELSE None
\* %Y is 4 digits, %m and %d are 1 or 2 digits
ParseFields(ys, ms, ds) ==
    IF AllDigits(ys) /\ Len(ys) = 4 /\ AllDigits(ms) /\ Len(ms) <= 2
       /\ AllDigits(ds) /\ Len(ds) <= 2
    THEN MakeDate(DigitsValue(ys), DigitsValue(ms), DigitsValue(ds))
    ELSE None
SplitAt(date_str, d1, d2) ==
    ParseFields(SubSeq(date_str, 1, d1 - 1),
                SubSeq(date_str, d1 + 1, d2 - 1),
                SubSeq(date_str, d2 + 1, Len(date_str)))
SplitDashes(date_str, dashes) ==
    IF Cardinality(dashes) # 2 THEN None
    ELSE SplitAt(date_str,
                 CHOOSE i \in dashes : \A j \in dashes : i <= j,
                 CHOOSE i \in dashes : \A j \in dashes : j <= i)
\* datetime.strptime(date_str, '%Y-%m-%d'): Some(<<y, m, d>>), or None for ValueError
strptime(date_str) == SplitDashes(date_str, {i \in DOMAIN date_str : date_str[i] = "-"})

MaxDaysAhead == 365
\* lines 116-126
CheckDate(date_str, date_obj, now) ==
    IF date_obj = None THEN Reject("Invalid date format. Please use YYYY-MM-DD")
    ELSE IF Ordinal(Val(date_obj)) < Ordinal(now)
    THEN Reject("Shipping date must be in the future")
    ELSE IF Ordinal(Val(date_obj)) > Ordinal(now) + MaxDaysAhead
    THEN Reject("Shipping date must be within 1 year from today")
    ELSE Accept(date_str)

validate_date(date_str, now) ==
    IF date_str = None \/ Val(date_str) = <<>> THEN Reject("Shipping date is required")
    ELSE CheckDate(date_str, strptime(Val(date_str)), now)

\* lines 140-144
CheckCargoType(normalized) ==
    IF normalized \notin VALID_CARGO_TYPES THEN Reject("Invalid cargo type")
    ELSE Accept(Some(normalized))

validate_cargo_type(cargo_type) ==
    IF cargo_type = None \/ Val(cargo_type) = <<>> THEN Reject("Cargo type is required")
    ELSE CheckCargoType(Strip(Lower(Val(cargo_type))))

\* db.query(Route).filter_by(origin=, destination=).first()
FindRoute(rts, origin, destination) ==
    IF \E r \in rts : r.origin = origin /\ r.destination = destination
    THEN Some(CHOOSE r \in rts : r.origin = origin /\ r.destination = destination)
    ELSE None

validate_route(origin, destination, rts) ==
    IF origin = destination THEN Reject("Origin and destination cannot be the same")
    ELSE IF FindRoute(rts, origin, destination) = None THEN Reject("No route available")
    ELSE Accept(None)

MinIdLen == 6
MaxIdLen == 12
\* re.match(r'^[A-Z0-9]{6,12}$', s)
\* [A-Z0-9]{6,12} on the whole of s
IsIdText(s) ==
    /\ Len(s) >= MinIdLen
    /\ Len(s) <= MaxIdLen
    /\ \A i \in DOMAIN s : s[i] \in Range(UpperChars) \/ IsDigit(s[i])
\* re.match(r'^[A-Z0-9]{6,12}$', s): $ matches at the end of the string and also
\* just before a newline that ends it
MatchesIdPattern(s) ==
    \/ IsIdText(s)
    \/ Len(s) > 0 /\ s[Len(s)] = "\n" /\ IsIdText(SubSeq(s, 1, Len(s) - 1))

validate_booking_id(booking_id) ==
    IF booking_id = None \/ Val(booking_id) = <<>> THEN Reject("Booking ID is required")
    ELSE IF ~MatchesIdPattern(Upper(Val(booking_id))) THEN Reject("Invalid booking ID format")
    ELSE Accept(None)

(***************************************************************************)
(* pricing.py.  Money in cents, computed exactly: a price is a fraction    *)
(* over PriceDenominator until the final round(., 2).                      *)
(***************************************************************************)
\* cargo type -> multiplier in tenths, as <<name, tenths>> pairs
CARGO_TYPE_MULTIPLIERS ==
    { << <<"g","e","n","e","r","a","l">>, 10 >>,
      << <<"p","e","r","i","s","h","a","b","l","e">>, 15 >>,
      << <<"h","a","z","a","r","d","o","u","s">>, 20 >>,
      << <<"v","e","h","i","c","l","e","s">>, 18 >>,
      << <<"l","i","v","e","s","t","o","c","k">>, 25 >> }
DefaultMultiplier == 10
OrDefault(found, default) == IF found # None THEN Val(found) ELSE default
\* CARGO_TYPE_MULTIPLIERS.get(cargo_type.lower(), 1.0)
CargoMultiplier(cargo_type) ==
    OrDefault(Lookup(CARGO_TYPE_MULTIPLIERS, Lower(cargo_type)), DefaultMultiplier)

PEAK_SEASONS == { <<11, 12>>, <<6, 8>> }
PeakPercent == 115
NoPeakPercent == 100
\* a season test that leaves out the first and the last month of each range
InPeakSeasonExclusive(date_obj) ==
    date_obj # None /\ \E p \in PEAK_SEASONS :
                          p[1] < Val(date_obj)[2] /\ Val(date_obj)[2] < p[2]
InPeakSeason(date_obj) ==
    date_obj # None /\ \E p \in PEAK_SEASONS :
                          p[1] <= Val(date_obj)[2] /\ Val(date_obj)[2] <= p[2]
\* the peak multiplier in percent; a date strptime rejects is not peak
PeakMultiplier(shipping_date) ==
    IF InPeakSeason(strptime(shipping_date)) THEN PeakPercent ELSE NoPeakPercent

KgPerTonne == 1000
WeightUnitsPerTonne == 100
VolumetricKgPerM3 == 167
DensityLimit == 6
\* weight_kg = weight * 1000
WeightKg(weight) == (weight * KgPerTonne) \div WeightUnitsPerTonne
\* a surcharge charged whenever the volumetric weight exceeds the actual weight
VolumeSurchargeTwiceByWeightOnly(base_price_per_kg, weight, volume) ==
    IF /\ volume # None
       /\ Val(volume) # 0
       /\ Val(volume) * VolumetricKgPerM3 > WeightKg(weight)
    THEN (Val(volume) * VolumetricKgPerM3 - WeightKg(weight)) * base_price_per_kg
    ELSE 0
\* twice the volume surcharge in cents ((volumetric - actual) * base * 0.5)
VolumeSurchargeTwice(base_price_per_kg, weight, volume) ==
    IF /\ volume # None
       /\ Val(volume) # 0
       /\ Val(volume) * WeightUnitsPerTonne > weight * DensityLimit
       /\ Val(volume) * VolumetricKgPerM3 > WeightKg(weight)
    THEN (Val(volume) * VolumetricKgPerM3 - WeightKg(weight)) * base_price_per_kg
    ELSE 0

PriceDenominator == 2000
\* a subtotal in which the cargo multiplier scales the volume surcharge as well
SubtotalX20SurchargeFirst(base_price_per_kg, weight, cargo_type, volume) ==
    (2 * (base_price_per_kg * WeightKg(weight))
     + VolumeSurchargeTwice(base_price_per_kg, weight, volume))
    * CargoMultiplier(cargo_type)
\* twenty times (cost_with_cargo + volume_surcharge), in cents
SubtotalX20(base_price_per_kg, weight, cargo_type, volume) ==
    2 * (base_price_per_kg * WeightKg(weight) * CargoMultiplier(cargo_type))
    + 10 * VolumeSurchargeTwice(base_price_per_kg, weight, volume)

\* round(whole + rest / PriceDenominator, 2): to nearest, a tie to the even cent
RoundHalfEven(whole, rest) ==
    IF 2 * rest < PriceDenominator THEN whole
    ELSE IF 2 * rest > PriceDenominator THEN whole + 1
    ELSE IF whole % 2 = 0 THEN whole ELSE whole + 1

\* round(x20 * percent / 2000, 2) in cents.  The product is split so that no
\* intermediate leaves 32 bits.
RoundedCents(x20, percent) ==
    RoundHalfEven(
        (x20 \div PriceDenominator) * percent
            + ((x20 % PriceDenominator) * percent) \div PriceDenominator,
        ((x20 % PriceDenominator) * percent) % PriceDenominator)

calculate_price(base_price_per_kg, weight, cargo_type, shipping_date, volume) ==
    RoundedCents(SubtotalX20(base_price_per_kg, weight, cargo_type, volume),
                 PeakMultiplier(shipping_date))

\* a total that applies the peak multiplier to the cargo cost alone
BreakdownTotalPeakOnCargo(base_cost, cargo_multiplier, surcharge_twice, percent) ==
    RoundedCents(2 * (base_cost * cargo_multiplier), percent)
    + RoundedCents(10 * surcharge_twice, NoPeakPercent)
\* lines 121-123: subtotal = (base_cost * cargo_multiplier) + volume_surcharge and
\* total = round(subtotal * peak_multiplier, 2)
BreakdownTotal(base_cost, cargo_multiplier, surcharge_twice, percent) ==
    RoundedCents(2 * (base_cost * cargo_multiplier) + 10 * surcharge_twice, percent)

\* lines 93-125: the terms in cents, the multipliers in tenths and in percent
Breakdown(base_cost, cargo_type, cargo_multiplier, surcharge_twice, percent) ==
    [base_cost |-> base_cost,
     cargo_type |-> cargo_type,
     cargo_multiplier |-> cargo_multiplier,
     cargo_surcharge |-> RoundedCents(2 * (base_cost * (cargo_multiplier - 10)), NoPeakPercent),
     volume_surcharge |-> RoundedCents(10 * surcharge_twice, NoPeakPercent),
     peak_season_multiplier |-> percent,
     peak_season_surcharge |->
        RoundedCents(2 * (base_cost * cargo_multiplier) + 10 * surcharge_twice,
                     percent - NoPeakPercent),
     total |-> BreakdownTotal(base_cost, cargo_multiplier, surcharge_twice, percent)]

get_price_breakdown(base_price_per_kg, weight, cargo_type, shipping_date, volume) ==
    Breakdown(base_price_per_kg * WeightKg(weight),
              cargo_type,
              CargoMultiplier(cargo_type),
              VolumeSurchargeTwice(base_price_per_kg, weight, volume),
              PeakMultiplier(shipping_date))

(***************************************************************************)
(* Outcomes of an operation: a returned body, an HTTPException, or any     *)
(* other exception leaving the handler (pydantic ValidationError,          *)
(* sqlalchemy IntegrityError), which the framework turns into a 500.       *)
(***************************************************************************)
Returned(body) ==
    [outcome |-> "returned", status_code |-> 200, detail |-> "", body |-> Some(body)]
HTTPException(code, msg) ==
    [outcome |-> "http_error", status_code |-> code, detail |-> msg, body |-> None]
Raised(exc) ==
    [outcome |-> "exception", status_code |-> 500, detail |-> exc, body |-> None]

\* constructing a pydantic model: every required field must carry a value
RequestRequired == {"origin", "destination", "weight", "cargo_type", "shipping_date"}
PydanticOk(required, given) == required \subseteq given

(***************************************************************************)
(* endpoints.py: the direct operations                                     *)
(***************************************************************************)
\* lines 119-125, 194-199: the route check and the route row
CheckRoute(origin, destination, cargo_type, shipping_date, rts) ==
    IF ~validate_route(origin, destination, rts).valid
    THEN Reject(validate_route(origin, destination, rts).error)
    ELSE Accept(Some([origin |-> origin,
                      destination |-> destination,
                      cargo_type |-> cargo_type,
                      shipping_date |-> shipping_date,
                      route |-> Val(FindRoute(rts, origin, destination))]))

\* lines 89-117, 169-192: the first failing check decides the error
FirstRejection(vo, vd, vw, vv, vt, vc, rts) ==
    IF ~vo.valid THEN Reject(vo.error)
    ELSE IF ~vd.valid THEN Reject(vd.error)
    ELSE IF ~vw.valid THEN Reject(vw.error)
    ELSE IF ~vv.valid THEN Reject(vv.error)
    ELSE IF ~vt.valid THEN Reject(vt.error)
    ELSE IF ~vc.valid THEN Reject(vc.error)
    ELSE CheckRoute(Val(vo.value), Val(vd.value), Val(vc.value), Val(vt.value), rts)

\* the validation chain shared by get_quote and create_booking
ValidateShipment(request, rts, now) ==
    FirstRejection(validate_location(Get(request, "origin")),
                   validate_location(Get(request, "destination")),
                   validate_weight(Get(request, "weight")),
                   validate_volume(Get(request, "volume")),
                   validate_date(Get(request, "shipping_date"), now),
                   validate_cargo_type(Get(request, "cargo_type")),
                   rts)

\* lines 127-134, 198-206
PriceOf(request, n) ==
    calculate_price(n.route.base_price_per_kg, request["weight"], n.cargo_type,
                    n.shipping_date, Get(request, "volume"))

BadRequest == 400
BookingUnconfirmed == "Booking requires confirmation. Set confirmed=True to proceed."
CancellationUnconfirmed ==
    "Cancellation requires confirmation. Set confirmed=True to proceed."
NotFound == 404

\* lines 145-154
QuoteResponse(request, n) ==
    [origin |-> n.origin,
     destination |-> n.destination,
     weight |-> request["weight"],
     cargo_type |-> n.cargo_type,
     shipping_date |-> n.shipping_date,
     price |-> PriceOf(request, n),
     transit_days |-> n.route.transit_days]

QuoteValidated(request, v) ==
    IF ~v.valid THEN HTTPException(BadRequest, v.error)
    ELSE Returned(QuoteResponse(request, Val(v.value)))

get_quote(request, rts, now) == QuoteValidated(request, ValidateShipment(request, rts, now))

\* db.query(Booking).filter_by(booking_id=...).first(): the index of the row, 0 if none
FindBooking(bks, booking_id) ==
    IF \E i \in DOMAIN bks : bks[i].booking_id = booking_id
    THEN CHOOSE i \in DOMAIN bks :
            /\ bks[i].booking_id = booking_id
            /\ \A j \in DOMAIN bks : bks[j].booking_id = booking_id => i <= j
    ELSE 0

IdPrefix == <<"C","R","G">>
\* the id with the token as token_hex gives it, in lower case
NewBookingIdLowerCase(token) == IdPrefix \o token
\* f"CRG{secrets.token_hex(4).upper()}"
NewBookingId(token) == IdPrefix \o Upper(token)

\* Every operation on the store returns [out, bookings, clock].
Unchanged(out, bks, clk) == [out |-> out, bookings |-> bks, clock |-> clk]

\* a booking that stores the fields as the request gave them
BookingAsSent(request, n, booking_id, id, clk) ==
    [id |-> id,
     booking_id |-> booking_id,
     customer_name |-> Get(request, "customer_name"),
     customer_email |-> Get(request, "customer_email"),
     origin |-> request["origin"],
     destination |-> request["destination"],
     weight |-> request["weight"],
     volume |-> Get(request, "volume"),
     cargo_type |-> request["cargo_type"],
     shipping_date |-> request["shipping_date"],
     price |-> PriceOf(request, n),
     status |-> "confirmed",
     created_at |-> clk,
     updated_at |-> clk]

\* lines 211-224
Booking(request, n, booking_id, id, clk) ==
    [id |-> id,
     booking_id |-> booking_id,
     customer_name |-> Get(request, "customer_name"),
     customer_email |-> Get(request, "customer_email"),
     origin |-> n.origin,
     destination |-> n.destination,
     weight |-> request["weight"],
     volume |-> Get(request, "volume"),
     cargo_type |-> n.cargo_type,
     shipping_date |-> n.shipping_date,
     price |-> PriceOf(request, n),
     status |-> "confirmed",
     created_at |-> clk,
     updated_at |-> clk]

\* AddBooking on a table without the unique constraint on booking_id
AddBookingUnchecked(booking, bks, clk) ==
    [out |-> Returned([booking_id |-> booking.booking_id,
                       status |-> "confirmed",
                       price |-> booking.price,
                       message |-> <<"Booking confirmed! Your booking ID is",
                                     booking.booking_id>>]),
     bookings |-> Append(bks, booking),
     clock |-> clk + 1]

\* lines 226-235: db.add, db.commit and the response.  booking_id is unique=True:
\* with the id already in the table the commit raises and nothing is stored.
AddBooking(booking, bks, clk) ==
    IF FindBooking(bks, booking.booking_id) # 0
    THEN Unchanged(Raised("IntegrityError"), bks, clk)
    ELSE [out |-> Returned([booking_id |-> booking.booking_id,
                            status |-> "confirmed",
                            price |-> booking.price,
                            message |-> <<"Booking confirmed! Your booking ID is",
                                          booking.booking_id>>]),
          bookings |-> Append(bks, booking),
          clock |-> clk + 1]

\* CreateValidated writing the booking whatever the validation said
CreateUnvalidated(request, v, bks, clk, token) ==
    AddBooking([id |-> Len(bks) + 1, booking_id |-> NewBookingId(token),
                customer_name |-> Get(request, "customer_name"),
                customer_email |-> Get(request, "customer_email"),
                origin |-> request["origin"], destination |-> request["destination"],
                weight |-> request["weight"], volume |-> Get(request, "volume"),
                cargo_type |-> request["cargo_type"],
                shipping_date |-> request["shipping_date"],
                price |-> 0, status |-> "confirmed",
                created_at |-> clk, updated_at |-> clk],
               bks, clk)

CreateValidated(request, v, bks, clk, token) ==
    IF ~v.valid THEN Unchanged(HTTPException(BadRequest, v.error), bks, clk)
    ELSE AddBooking(Booking(request, Val(v.value), NewBookingId(token), Len(bks) + 1, clk),
                    bks, clk)

\* create_booking with the confirmation check made after the field validation
create_booking_validating_first(request, bks, rts, now, clk, token) ==
    IF ~ValidateShipment(request, rts, now).valid
    THEN Unchanged(HTTPException(BadRequest, ValidateShipment(request, rts, now).error),
                   bks, clk)
    ELSE IF ~request["confirmed"]
    THEN Unchanged(HTTPException(BadRequest, BookingUnconfirmed), bks, clk)
    ELSE CreateValidated(request, ValidateShipment(request, rts, now), bks, clk, token)

create_booking(request, bks, rts, now, clk, token) ==
    IF ~request["confirmed"]
    THEN Unchanged(HTTPException(BadRequest, BookingUnconfirmed), bks, clk)
    ELSE CreateValidated(request, ValidateShipment(request, rts, now), bks, clk, token)

\* a delete that removes the row
HardDelete(bks, i, clk) == SubSeq(bks, 1, i - 1) \o SubSeq(bks, i + 1, Len(bks))

\* a soft delete that renews the timestamp and leaves the status
TouchOnly(bks, i, clk) == [bks EXCEPT ![i].updated_at = clk]

\* lines 266-269: the soft delete of row i
SoftDelete(bks, i, clk) == [bks EXCEPT ![i].status = "cancelled", ![i].updated_at = clk]

\* CancelRow without the check of the current status
CancelRowUnguarded(request, i, bks, clk) ==
    IF i = 0 THEN Unchanged(HTTPException(NotFound, "Booking not found"), bks, clk)
    ELSE [out |-> Returned([message |-> <<"has been cancelled successfully",
                                          request["booking_id"]>>,
                            booking_id |-> request["booking_id"],
                            status |-> "cancelled"]),
          bookings |-> SoftDelete(bks, i, clk),
          clock |-> clk + 1]

\* lines 260-275: the row found (0 if none), its status check and the soft delete
CancelRow(request, i, bks, clk) ==
    IF i = 0 THEN Unchanged(HTTPException(NotFound, "Booking not found"), bks, clk)
    ELSE IF bks[i].status = "cancelled"
    THEN Unchanged(HTTPException(BadRequest, "Booking is already cancelled"), bks, clk)
    ELSE [out |-> Returned([message |-> <<"has been cancelled successfully",
                                          request["booking_id"]>>,
                            booking_id |-> request["booking_id"],
                            status |-> "cancelled"]),
          bookings |-> SoftDelete(bks, i, clk),
          clock |-> clk + 1]

cancel_booking(request, bks, clk) ==
    IF ~request["confirmed"]
    THEN Unchanged(HTTPException(BadRequest, CancellationUnconfirmed), bks, clk)
    ELSE IF ~validate_booking_id(Get(request, "booking_id")).valid
    THEN Unchanged(HTTPException(BadRequest,
                                 validate_booking_id(Get(request, "booking_id")).error),
                   bks, clk)
    ELSE CancelRow(request, FindBooking(bks, Upper(request["booking_id"])), bks, clk)

\* lines 292-305
TrackRow(i, bks) ==
    IF i = 0 THEN HTTPException(NotFound, "Booking not found")
    ELSE Returned([booking_id |-> bks[i].booking_id,
                   status |-> bks[i].status,
                   origin |-> bks[i].origin,
                   destination |-> bks[i].destination,
                   weight |-> bks[i].weight,
                   cargo_type |-> bks[i].cargo_type,
                   shipping_date |-> bks[i].shipping_date,
                   price |-> bks[i].price,
                   created_at |-> bks[i].created_at])

track_booking(booking_id, bks) ==
    IF ~validate_booking_id(Some(booking_id)).valid
    THEN HTTPException(BadRequest, validate_booking_id(Some(booking_id)).error)
    ELSE TrackRow(FindBooking(bks, Upper(booking_id)), bks)

\* query.order_by(Booking.created_at.desc())
RECURSIVE NewestFirst(_)
NewestFirst(rows) ==
    IF rows = {} THEN <<>>
    ELSE <<CHOOSE x \in rows : \A y \in rows : y.created_at <= x.created_at>>
         \o NewestFirst(rows \ {CHOOSE x \in rows : \A y \in rows : y.created_at <= x.created_at})

\* lines 323-339
ListPage(page) ==
    Returned([bookings |-> [i \in DOMAIN page |->
                               [booking_id |-> page[i].booking_id,
                                status |-> page[i].status,
                                origin |-> page[i].origin,
                                destination |-> page[i].destination,
                                weight |-> page[i].weight,
                                cargo_type |-> page[i].cargo_type,
                                shipping_date |-> page[i].shipping_date,
                                price |-> page[i].price,
                                created_at |-> page[i].created_at]],
              count |-> Len(page)])
\* .limit(limit).all()
Limit(sorted, limit) ==
    SubSeq(sorted, 1, IF limit < Len(sorted) THEN limit ELSE Len(sorted))

list_bookings(status, limit, bks) ==
    ListPage(Limit(NewestFirst({bks[i] : i \in {j \in DOMAIN bks :
                                    status = None \/ Val(status) = ""
                                    \/ bks[j].status = Val(status)}}),
                   limit))

(***************************************************************************)
(* llm_agent.py: the extractor.  Its answer for a turn is None when the    *)
(* call fails (unreachable, timed out, output that is not JSON), else the  *)
(* parsed output [intent_type, slots, missing_slots, clarification_question]*)
(***************************************************************************)
IntentRequired == {"intent_type", "confidence"}       \* class Intent
FallbackIntentKwargs == {"type", "confidence", "needs_confirmation"}
FallbackQuestion == "I'm sorry, I didn't understand that. Could you please rephrase?"

LLMResponse(intent_type, slots, missing_slots, clarification_question) ==
    [intent_type |-> intent_type, slots |-> slots, missing_slots |-> missing_slots,
     clarification_question |-> clarification_question]

extract_intent_and_slots(answer) ==
    IF answer = None
    THEN \* except Exception: the fallback response is built with Intent(type=...)
         IF PydanticOk(IntentRequired, FallbackIntentKwargs)
         THEN Returned(LLMResponse("clarification", <<>>, <<>>, Some(FallbackQuestion)))
         ELSE Raised("ValidationError")
    ELSE Returned(LLMResponse(
            IF Val(answer).intent_type = None THEN "clarification"
            ELSE Val(Val(answer).intent_type),
            Val(answer).slots,
            Val(answer).missing_slots,
            Val(answer).clarification_question))

(***************************************************************************)
(* endpoints.py: conversation                                              *)
(***************************************************************************)
NumericFields == {"weight", "volume"}
\* Python truth of an Optional slot value: None, "" and 0.0 are false
Truthy(k, o) ==
    /\ o # None
    /\ IF k \in NumericFields THEN Val(o) # 0 ELSE Val(o) # <<>>

Restrict(m, keys) == [k \in (DOMAIN m) \cap keys |-> m[k]]

\* `request.accumulated_slots or {}`
OrEmpty(accumulated_slots) ==
    IF accumulated_slots = None THEN <<>> ELSE Val(accumulated_slots)
\* a merge in which the value already accumulated wins
KeepAccumulated(accumulated, new_slots) ==
    [k \in (DOMAIN accumulated) \cup (DOMAIN new_slots) |->
        IF k \in DOMAIN accumulated THEN accumulated[k] ELSE new_slots[k]]
\* lines 359-362: extracted non-None values overwrite, everything else is kept
Overwrite(accumulated, new_slots) ==
    [k \in (DOMAIN accumulated) \cup (DOMAIN new_slots) |->
        IF k \in DOMAIN new_slots THEN new_slots[k] ELSE accumulated[k]]
MergeSlots(accumulated_slots, new_slots) == Overwrite(OrEmpty(accumulated_slots), new_slots)

AffirmWords == { <<"y","e","s">>, <<"c","o","n","f","i","r","m">>, <<"s","u","r","e">>,
                 <<"o","k">>, <<"p","r","o","c","e","e","d">> }
NegationWords == { <<"n","o">>, <<"c","a","n","c","e","l">>, <<"s","t","o","p">>,
                   <<"n","e","v","e","r","m","i","n","d">> }
AnyWordIn(words, user_msg_lower) == \E w \in words : Contains(user_msg_lower, w)
IsConfirmed(message) == AnyWordIn(AffirmWords, Lower(message))
IsCancelled(message) == AnyWordIn(NegationWords, Lower(message))

ConversationResponse(response, intent, needs_confirmation, confirmation_data, data, accumulated_slots) ==
    [response |-> response, intent |-> intent, needs_confirmation |-> needs_confirmation,
     confirmation_data |-> confirmation_data, data |-> data,
     accumulated_slots |-> accumulated_slots]

RequiredSlots == <<"origin", "destination", "weight", "cargo_type", "shipping_date">>
QuoteFields == {"origin", "destination", "weight", "volume", "cargo_type", "shipping_date"}
DraftFields == QuoteFields \cup {"customer_name", "customer_email"}
GenericFallback == "I'm not sure I understand. I can help you with quotes, bookings, tracking, or cancellations. What would you like to do?"

\* a prompt that never uses the extractor's question
AlwaysFallback(llm, fallback) == fallback

\* `question or fallback`
QuestionOr(llm, fallback) ==
    IF llm.clarification_question # None /\ Val(llm.clarification_question) # ""
    THEN <<"clarification_question", Val(llm.clarification_question)>>
    ELSE fallback

\* lines 468-485
QuoteReply(q, accumulated) ==
    IF q.outcome = "returned"
    THEN Returned(ConversationResponse(
            <<"Your quote is", Val(q.body)>>,
            "quote", FALSE, None,
            Some([price |-> Val(q.body).price, quote |-> Val(q.body)]),
            Some(accumulated)))
    ELSE Returned(ConversationResponse(
            <<"I couldn't generate a quote", q.detail>>,
            "quote", FALSE, None, None, Some(accumulated)))

\* lines 448-468
QuoteChecked(llm, actually_missing, accumulated, rts, now) ==
    IF llm.missing_slots # <<>> /\ actually_missing # <<>>
    THEN Returned(ConversationResponse(
            QuestionOr(llm, <<"I need some more information. Please provide", actually_missing>>),
            "quote", FALSE, None, Some([accumulated_slots |-> accumulated]),
            Some(accumulated)))
    ELSE IF ~PydanticOk(RequestRequired, DOMAIN accumulated)
    THEN Raised("ValidationError")      \* QuoteRequest(origin=None, ...)
    ELSE QuoteReply(get_quote(Restrict(accumulated, QuoteFields), rts, now), accumulated)

\* lines 439-485
QuoteIntent(llm, accumulated, rts, now) ==
    QuoteChecked(llm,
                 SelectSeq(llm.missing_slots,
                           LAMBDA slot : ~Truthy(slot, Get(accumulated, slot))),
                 accumulated, rts, now)

\* lines 514-533
BookReply(q, booking_data, accumulated) ==
    IF q.outcome = "returned"
    THEN Returned(ConversationResponse(
            <<"Please confirm to proceed. The total price is", Val(q.body).price>>,
            "book", TRUE,
            Some([type |-> "book", data |-> booking_data]),
            None, Some(accumulated)))
    ELSE Returned(ConversationResponse(
            <<"Error preparing booking", q.detail>>,
            "book", FALSE, None, None, Some(accumulated)))

\* a book branch that asks for the price of the draft without its volume
BookCheckedQuotingWithoutVolume(llm, missing, booking_data, accumulated, rts, now) ==
    IF missing # <<>>
    THEN Returned(ConversationResponse(
            QuestionOr(llm, <<"To create a booking, I need", missing>>),
            "book", FALSE, None, None, Some(accumulated)))
    ELSE BookReply(get_quote(Restrict(booking_data, QuoteFields \ {"volume"}), rts, now),
                   booking_data, accumulated)

\* lines 492-516
BookChecked(llm, missing, booking_data, accumulated, rts, now) ==
    IF missing # <<>>
    THEN Returned(ConversationResponse(
            QuestionOr(llm, <<"To create a booking, I need", missing>>),
            "book", FALSE, None, None, Some(accumulated)))
    ELSE BookReply(get_quote(Restrict(booking_data, QuoteFields), rts, now),
                   booking_data, accumulated)

\* a book branch whose draft carries the quote fields alone
BookIntentQuoteFieldsOnly(llm, accumulated, rts, now) ==
    BookChecked(llm,
                SelectSeq(RequiredSlots, LAMBDA s : ~Truthy(s, Get(accumulated, s))),
                Restrict(accumulated, QuoteFields),
                accumulated, rts, now)

\* lines 487-533
BookIntent(llm, accumulated, rts, now) ==
    BookChecked(llm,
                SelectSeq(RequiredSlots, LAMBDA s : ~Truthy(s, Get(accumulated, s))),
                Restrict(accumulated, DraftFields),
                accumulated, rts, now)

\* CancelIntent asking for the confirmation without the confirmation_data
CancelIntentWithoutData(accumulated) ==
    IF ~Truthy("booking_id", Get(accumulated, "booking_id"))
    THEN Returned(ConversationResponse(
            <<"What's your booking ID?", "cancel">>,
            "cancel", FALSE, None, None, Some(accumulated)))
    ELSE Returned(ConversationResponse(
            <<"Are you sure you want to cancel booking", accumulated["booking_id"]>>,
            "cancel", TRUE, None, None, Some(accumulated)))

\* lines 535-551
CancelIntent(accumulated) ==
    IF ~Truthy("booking_id", Get(accumulated, "booking_id"))
    THEN Returned(ConversationResponse(
            <<"What's your booking ID?", "cancel">>,
            "cancel", FALSE, None, None, Some(accumulated)))
    ELSE Returned(ConversationResponse(
            <<"Are you sure you want to cancel booking", accumulated["booking_id"]>>,
            "cancel", TRUE,
            Some([type |-> "cancel", booking_id |-> accumulated["booking_id"]]),
            None, Some(accumulated)))

\* a track branch that lets the HTTPException of the lookup leave the handler
TrackReplyPropagating(t, accumulated) ==
    IF t.outcome = "returned"
    THEN Returned(ConversationResponse(
            <<"Booking status", Val(t.body)>>,
            "track", FALSE, None, Some(Val(t.body)), Some(accumulated)))
    ELSE t

\* lines 562-580
TrackReply(t, accumulated) ==
    IF t.outcome = "returned"
    THEN Returned(ConversationResponse(
            <<"Booking status", Val(t.body)>>,
            "track", FALSE, None, Some(Val(t.body)), Some(accumulated)))
    ELSE Returned(ConversationResponse(
            <<"Error tracking booking", t.detail>>,
            "track", FALSE, None, None, Some(accumulated)))

\* lines 553-580
TrackIntent(accumulated, bks) ==
    IF ~Truthy("booking_id", Get(accumulated, "booking_id"))
    THEN Returned(ConversationResponse(
            <<"What's your booking ID?", "track">>,
            "track", FALSE, None, None, Some(accumulated)))
    ELSE TrackReply(track_booking(accumulated["booking_id"], bks), accumulated)

\* lines 430-590: the intent dispatch; it never writes to the store
Dispatch(llm, accumulated, bks, rts, now) ==
    IF llm.intent_type = "greeting"
    THEN Returned(ConversationResponse(
            <<"Hello! I'm your air cargo booking assistant.", "">>,
            "greeting", FALSE, None, None, Some(accumulated)))
    ELSE IF llm.intent_type = "quote" THEN QuoteIntent(llm, accumulated, rts, now)
    ELSE IF llm.intent_type = "book" THEN BookIntent(llm, accumulated, rts, now)
    ELSE IF llm.intent_type = "cancel" THEN CancelIntent(accumulated)
    ELSE IF llm.intent_type = "track" THEN TrackIntent(accumulated, bks)
    ELSE Returned(ConversationResponse(
            QuestionOr(llm, <<GenericFallback, "">>),
            "clarification", FALSE, None, None, Some(accumulated)))

\* lines 390-401: the response to the create_booking call
BookedReply(r) ==
    IF r.out.outcome = "returned"
    THEN [r EXCEPT !.out = Returned(ConversationResponse(
                Val(r.out.body).message, "book", FALSE, None,
                Some([booking_id |-> Val(r.out.body).booking_id,
                      price |-> Val(r.out.body).price]),
                None))]
    ELSE IF r.out.outcome = "http_error"
    THEN [r EXCEPT !.out = Returned(ConversationResponse(
                <<"Error creating booking", r.out.detail>>,
                "book", FALSE, None, None, None))]
    ELSE r

\* lines 386-389: BookingRequest(**booking_data, confirmed=True) and the call
ConfirmDraft(booking_data, bks, rts, now, clk, token) ==
    IF "confirmed" \in DOMAIN booking_data
    THEN Unchanged(Raised("TypeError"), bks, clk)      \* confirmed given twice
    ELSE IF ~PydanticOk(RequestRequired, DOMAIN booking_data)
    THEN Unchanged(Raised("ValidationError"), bks, clk)
    ELSE BookedReply(create_booking(booking_data @@ [confirmed |-> TRUE],
                                    bks, rts, now, clk, token))

\* lines 384-401
ConfirmBook(pending, bks, rts, now, clk, token) ==
    ConfirmDraft(IF "data" \in DOMAIN pending THEN pending["data"] ELSE <<>>,
                 bks, rts, now, clk, token)

\* lines 411-421: the response to the cancel_booking call
CancelledReply(r) ==
    IF r.out.outcome = "returned"
    THEN [r EXCEPT !.out = Returned(ConversationResponse(
                Val(r.out.body).message, "cancel", FALSE, None, None, None))]
    ELSE IF r.out.outcome = "http_error"
    THEN [r EXCEPT !.out = Returned(ConversationResponse(
                <<"Error cancelling booking", r.out.detail>>,
                "cancel", FALSE, None, None, None))]
    ELSE r

\* lines 403-421
ConfirmCancel(pending, bks, clk) ==
    IF "booking_id" \notin DOMAIN pending
    THEN Unchanged(Raised("ValidationError"), bks, clk)    \* CancelRequest(booking_id=None)
    ELSE CancelledReply(
            cancel_booking([booking_id |-> pending["booking_id"], confirmed |-> TRUE],
                           bks, clk))

\* `if request.pending_confirmation:` an absent or empty mapping is false
HasPending(request) ==
    request.pending_confirmation # None /\ DOMAIN Val(request.pending_confirmation) # {}
\* request.pending_confirmation.get("type")
PendingType(request) ==
    IF "type" \in DOMAIN Val(request.pending_confirmation)
    THEN Val(request.pending_confirmation)["type"]
    ELSE ""

\* DeclinedReply with the confirmation flag left set
DeclinedReplyStillPending ==
    ConversationResponse(
        <<"Okay, I've cancelled that action. How else can I help you?", "">>,
        "clarification", TRUE, None, None, None)

\* lines 423-428: the answer to a declined confirmation
DeclinedReply ==
    ConversationResponse(
        <<"Okay, I've cancelled that action. How else can I help you?", "">>,
        "clarification", FALSE, None, None, None)

\* DeclinesPending taking every message that does not affirm as a refusal
DeclinesWheneverNotAffirmed(request) ==
    HasPending(request) /\ ~IsConfirmed(request.message)

\* an affirmation that a negation token in the same message takes back
AffirmsPendingUnlessNegated(request, type) ==
    /\ HasPending(request)
    /\ IsConfirmed(request.message)
    /\ ~IsCancelled(request.message)
    /\ PendingType(request) = type
\* lines 382-384, 403: the message affirms a pending confirmation of this type
AffirmsPending(request, type) ==
    HasPending(request) /\ IsConfirmed(request.message) /\ PendingType(request) = type
\* line 423: the message is not affirmative and declines the pending confirmation
DeclinesPending(request) ==
    HasPending(request) /\ ~IsConfirmed(request.message) /\ IsCancelled(request.message)

\* Turn with a dispatch that books at once when the draft is complete
TurnBookingAtOnce(request, llm, bks, rts, now, clk, token) ==
    IF AffirmsPending(request, "book")
    THEN ConfirmBook(Val(request.pending_confirmation), bks, rts, now, clk, token)
    ELSE IF AffirmsPending(request, "cancel")
    THEN ConfirmCancel(Val(request.pending_confirmation), bks, clk)
    ELSE IF DeclinesPending(request)
    THEN Unchanged(Returned(DeclinedReply), bks, clk)
    ELSE IF llm.intent_type = "book"
    THEN ConfirmDraft(Restrict(MergeSlots(request.accumulated_slots, llm.slots), DraftFields),
                      bks, rts, now, clk, token)
    ELSE Unchanged(Dispatch(llm, MergeSlots(request.accumulated_slots, llm.slots),
                            bks, rts, now),
                   bks, clk)

\* lines 355-590, once the extractor has answered
Turn(request, llm, bks, rts, now, clk, token) ==
    IF AffirmsPending(request, "book")
    THEN ConfirmBook(Val(request.pending_confirmation), bks, rts, now, clk, token)
    ELSE IF AffirmsPending(request, "cancel")
    THEN ConfirmCancel(Val(request.pending_confirmation), bks, clk)
    ELSE IF DeclinesPending(request)
    THEN Unchanged(Returned(DeclinedReply), bks, clk)
    ELSE Unchanged(Dispatch(llm, MergeSlots(request.accumulated_slots, llm.slots),
                            bks, rts, now),
                   bks, clk)

\* lines 348-352: the extractor call; an exception it raises leaves the handler
Extracted(request, ex, bks, rts, now, clk, token) ==
    IF ex.outcome # "returned" THEN Unchanged(ex, bks, clk)
    ELSE Turn(request, Val(ex.body), bks, rts, now, clk, token)

\* lines 341-590
conversation(request, bks, rts, now, clk, token) ==
    Extracted(request, extract_intent_and_slots(request.llm), bks, rts, now, clk, token)

(***************************************************************************)
(* The values the callers and the extractor are drawn from                 *)
(***************************************************************************)
NewYork == <<"N","e","w"," ","Y","o","r","k">>
London == <<"L","o","n","d","o","n">>
JFK == <<"J","F","K">>
LHR == <<"L","H","R">>
General == <<"g","e","n","e","r","a","l">>
Feb15 == <<"2","0","2","6","-","0","2","-","1","5">>
Ann == <<"A","n","n">>
ShortId == <<"A","B","1","2">>

\* secrets.token_hex(4): 8 lowercase hexadecimal characters
Tokens == { <<"0","0","0","0","0","0","0","1">>, <<"a","1","b","2","c","3","d","4">> }
KnownId == NewBookingId(<<"0","0","0","0","0","0","0","1">>)

Today0 == <<2026, 2, 1>>
Routes0 ==
    { [origin |-> JFK, destination |-> LHR, base_price_per_kg |-> 250, transit_days |-> 1],
      [origin |-> LHR, destination |-> JFK, base_price_per_kg |-> 275, transit_days |-> 1] }

FullDraft ==
    [origin |-> NewYork, destination |-> London, weight |-> 500, volume |-> 40,
     cargo_type |-> General, shipping_date |-> Feb15, customer_name |-> Ann]

\* what the extractor may report as slots in one turn
SlotReports ==
    { <<>>,
      FullDraft,
      [destination |-> JFK],
      [origin |-> <<>>],
      [booking_id |-> KnownId],
      [booking_id |-> ShortId] }
IntentTypes == {"greeting", "quote", "book", "cancel", "track", "clarification", "complaint"}
Questions == {None, Some("Which city are you shipping from?")}
MissingLists == { <<>>, <<"origin">>, <<"customer_name">> }

\* The extractor's answers.  missing_slots is read by the quote branch alone, so
\* it varies for the quote intent only.
LLMAnswers ==
    {None} \cup
    { Some([intent_type |-> Some(i), slots |-> s, missing_slots |-> m,
            clarification_question |-> q]) :
        i \in IntentTypes, s \in SlotReports, q \in Questions, m \in MissingLists }
FullLLMAnswers ==
    {a \in LLMAnswers : a # None /\ Val(Val(a).intent_type) # "quote"
                            => Val(a).missing_slots = <<>>}
\* the answers combined with a pending confirmation
BriefLLMAnswers ==
    {a \in FullLLMAnswers : a # None =>
        /\ Val(a).slots \in { <<>>, [booking_id |-> KnownId] }
        /\ Val(a).clarification_question = None}

Messages ==
    { <<"Y","e","s">>,
      <<"n","o">>,
      <<"h","e","l","l","o">>,
      <<"c","a","n","c","e","l"," ","m","y"," ","b","o","o","k","i","n","g">> }
PlainMessages == { <<"Y","e","s">>, <<"h","e","l","l","o">> }

\* pending confirmations a caller may send besides the one it was given
CraftedPendings ==
    { [type |-> "book"],
      [type |-> "cancel"],
      [type |-> "book", data |-> [FullDraft EXCEPT !.destination = JFK]] }

\* The inputs of one conversation turn: <<message, pending_confirmation, answer>>
TurnInputs(cl) ==
    ({ <<m, None, a>> : m \in PlainMessages, a \in FullLLMAnswers })
    \cup
    ({ <<m, p, a>> : m \in Messages,
                     p \in ({Some(c) : c \in CraftedPendings}
                            \cup ({cl.confirmation_data} \ {None})),
                     a \in BriefLLMAnswers })

BookingRequests ==
    { FullDraft,
      [FullDraft EXCEPT !.origin = <<"U","n","k","n","o","w","n"," ","C","i","t","y">>],
      [FullDraft EXCEPT !.weight = 5],
      [origin |-> <<"l","h","r">>, destination |-> NewYork, weight |-> 1000,
       cargo_type |-> <<"H","A","Z","A","R","D","O","U","S">>, shipping_date |-> Feb15,
       customer_name |-> Ann] }
BookingIds ==
    { KnownId, Lower(KnownId), ShortId, <<"A","B","C","1","2","3">>, KnownId \o <<"\n">> }
StatusFilters == {None, Some("confirmed"), Some("cancelled")}
Limits == {1, 50}

(***************************************************************************)
(* The state machine.  One request is served at a time: an operation       *)
(* action is the caller sending a request and the handler serving it;      *)
(* Receive is the caller taking the response.                              *)
(***************************************************************************)
MaxBookings == 1
\* the handlers that may run at once
NumWorkers == 2
Workers == 1..NumWorkers
\* a handler: where it stands (idle, validate, commit, read, write, done), the
\* operation and request it serves, what it holds between two store calls (the
\* new Booking object, or the index of the row it read), its outcome, and the
\* status its booking had when the request arrived (kept for the properties only)
Handler(pc, op, request, local, out, arrived) ==
    [pc |-> pc, op |-> op, request |-> request, local |-> local, out |-> out,
     arrived |-> arrived]
IdleHandler == Handler("idle", "", <<>>, <<>>, None, "")

Init ==
    /\ bookings = <<>>
    /\ routes = Routes0
    /\ clock = 1
    /\ today = Today0
    /\ client = [accumulated_slots |-> None, confirmation_data |-> None]
    /\ req = None
    /\ resp = None
    /\ handlers = [w \in Workers |-> IdleHandler]

Idle == req = None /\ resp = None

\* the result of a handler becomes the new store and the response
Serve(request, result) ==
    /\ Len(result.bookings) <= MaxBookings
    /\ bookings' = result.bookings
    /\ clock' = result.clock
    /\ req' = Some(request)
    /\ resp' = Some(result.out)
    /\ UNCHANGED <<routes, today, client, handlers>>

Conversation ==
    /\ Idle
    /\ \E input \in TurnInputs(client), token \in Tokens :
         LET request == [op |-> "conversation",
                         message |-> input[1],
                         pending_confirmation |-> input[2],
                         accumulated_slots |-> client.accumulated_slots,
                         llm |-> input[3]]
         IN  Serve(request, conversation(request, bookings, routes, today, clock, token))

CreateBooking ==
    /\ Idle
    /\ \E body \in BookingRequests, confirmed \in BOOLEAN, token \in Tokens :
         LET request == [op |-> "book", body |-> body @@ [confirmed |-> confirmed]]
         IN  Serve(request, create_booking(request.body, bookings, routes, today, clock, token))

CancelBooking ==
    /\ Idle
    /\ \E id \in BookingIds, confirmed \in BOOLEAN :
         LET request == [op |-> "cancel", body |-> [booking_id |-> id, confirmed |-> confirmed]]
         IN  Serve(request, cancel_booking(request.body, bookings, clock))

TrackBooking ==
    /\ Idle
    /\ \E id \in BookingIds :
         LET request == [op |-> "track", booking_id |-> id]
         IN  Serve(request, Unchanged(track_booking(id, bookings), bookings, clock))

GetQuote ==
    /\ Idle
    /\ \E body \in BookingRequests :
         LET request == [op |-> "quote", body |-> Restrict(body, QuoteFields)]
         IN  Serve(request, Unchanged(get_quote(request.body, routes, today), bookings, clock))

ListBookings ==
    /\ Idle
    /\ \E status \in StatusFilters, limit \in Limits :
         LET request == [op |-> "list", status |-> status, limit |-> limit]
         IN  Serve(request, Unchanged(list_bookings(status, limit, bookings), bookings, clock))

\* The caller takes the response.  After a conversation turn it keeps the
\* accumulated_slots and confirmation_data of the response for its next request;
\* a turn that ended in a 500 leaves what it carried.
Receive ==
    /\ req # None
    /\ resp # None
    /\ client' = IF Val(req).op = "conversation" /\ Val(resp).outcome = "returned"
                 THEN [accumulated_slots |-> Val(Val(resp).body).accumulated_slots,
                       confirmation_data |-> Val(Val(resp).body).confirmation_data]
                 ELSE client
    /\ req' = None
    /\ resp' = None
    /\ UNCHANGED <<bookings, routes, clock, today, handlers>>

Next ==
    \/ Conversation
    \/ CreateBooking
    \/ CancelBooking
    \/ TrackBooking
    \/ GetQuote
    \/ ListBookings
    \/ Receive

Spec == Init /\ [][Next]_vars

(***************************************************************************)
(* Concurrent runs.  Each worker serves one direct operation at a time.    *)
(* A handler's calls to the store (a query, a commit) are the steps; the   *)
(* steps of different handlers interleave freely, since the handlers take  *)
(* no lock and each opens a session of its own (database.py:74-80).        *)
(***************************************************************************)
ConcurrentBodies == { FullDraft, [FullDraft EXCEPT !.weight = 5] }

\* the status of the booking an id names, "" if there is none
StatusOf(bks, id) ==
    IF FindBooking(bks, Upper(id)) = 0 THEN "" ELSE bks[FindBooking(bks, Upper(id))].status

Step(w, h) ==
    /\ handlers' = [handlers EXCEPT ![w] = h]
    /\ UNCHANGED <<bookings, clock, routes, today, client, req, resp>>

StoreStep(w, h, result) ==
    /\ handlers' = [handlers EXCEPT ![w] = [h EXCEPT !.pc = "done", !.out = Some(result.out)]]
    /\ bookings' = result.bookings
    /\ clock' = result.clock
    /\ UNCHANGED <<routes, today, client, req, resp>>

\* a confirmed create-booking request arrives
ArriveCreate(w) ==
    /\ handlers[w].pc = "idle"
    /\ \E body \in ConcurrentBodies :
          Step(w, Handler("validate", "book", body @@ [confirmed |-> TRUE], <<>>, None, ""))

\* endpoints.py:169-224: validation, price, id and the Booking object
Prepared(h, v, token) ==
    IF ~v.valid
    THEN [h EXCEPT !.pc = "done", !.out = Some(HTTPException(BadRequest, v.error))]
    ELSE [h EXCEPT !.pc = "commit",
                   !.local = Booking(h.request, Val(v.value), NewBookingId(token), 0, 0)]

CreatePrepare(w) ==
    /\ handlers[w].pc = "validate"
    /\ \E token \in Tokens :
          Step(w, Prepared(handlers[w],
                           ValidateShipment(handlers[w].request, routes, today), token))

\* the row as the insert stores it: autoincrement id, created_at and updated_at
\* default to the time of the insert
Inserted(booking, bks, clk) ==
    [booking EXCEPT !.id = Len(bks) + 1, !.created_at = clk, !.updated_at = clk]

\* endpoints.py:226-235: db.add and db.commit
CreateCommit(w) ==
    /\ handlers[w].pc = "commit"
    /\ StoreStep(w, handlers[w],
                 AddBooking(Inserted(handlers[w].local, bookings, clock), bookings, clock))

\* a confirmed cancel request arrives
ArriveCancel(w) ==
    /\ handlers[w].pc = "idle"
    /\ \E id \in BookingIds :
          Step(w, Handler("read", "cancel", [booking_id |-> id, confirmed |-> TRUE],
                          0, None, StatusOf(bookings, id)))

\* endpoints.py:244-264: the checks and the query; cancel_booking on the store as
\* it is now tells what they find
ReadRow(h, r, i) ==
    IF r.out.outcome # "returned"
    THEN [h EXCEPT !.pc = "done", !.out = Some(r.out)]
    ELSE [h EXCEPT !.pc = "write", !.local = i, !.out = Some(r.out)]

CancelRead(w) ==
    /\ handlers[w].pc = "read"
    /\ Step(w, ReadRow(handlers[w],
                       cancel_booking(handlers[w].request, bookings, clock),
                       FindBooking(bookings, Upper(handlers[w].request["booking_id"]))))

\* endpoints.py:266-275: the status and timestamp are set on the row read earlier
\* and committed
CancelWrite(w) ==
    /\ handlers[w].pc = "write"
    /\ StoreStep(w, handlers[w],
                 [out |-> Val(handlers[w].out),
                  bookings |-> SoftDelete(bookings, handlers[w].local, clock),
                  clock |-> clock + 1])

\* endpoints.py:283-305: a track request is one query
Track(w) ==
    /\ handlers[w].pc = "idle"
    /\ \E id \in BookingIds :
          StoreStep(w, Handler("done", "track", [booking_id |-> id], 0, None,
                               StatusOf(bookings, id)),
                    Unchanged(track_booking(id, bookings), bookings, clock))

\* the handler returns its response
Return(w) ==
    /\ handlers[w].pc = "done"
    /\ Step(w, IdleHandler)

NextConcurrent ==
    \E w \in Workers :
        \/ ArriveCreate(w)
        \/ CreatePrepare(w)
        \/ CreateCommit(w)
        \/ ArriveCancel(w)
        \/ CancelRead(w)
        \/ CancelWrite(w)
        \/ Track(w)
        \/ Return(w)

SpecConcurrent == Init /\ [][NextConcurrent]_vars

(***************************************************************************)
(* The pricing and validation functions called on their own, as            *)
(* test_backend.py calls them: req holds the arguments of one call and     *)
(* resp the values returned so far, by function name.                      *)
(***************************************************************************)
Dec15 == <<"2","0","2","6","-","1","2","-","1","5">>
ShippingDates ==
    { Feb15, Dec15,
      <<"2","0","2","6","-","0","6","-","3","0">>,
      <<"2","0","2","6","-","0","6","-","3","1">>,
      <<"2","0","2","6","-","1","1","-","0","1">>,
      <<"2","0","2","6","-","8","-","5">>,
      <<"2","0","2","6","-","0","9","-","0","1">>,
      <<"1","5","/","1","2","/","2","0","2","6">> }
CargoTypes ==
    { <<p[1], Lower(p[1]), Upper(p[1])>>[k] : p \in CARGO_TYPE_MULTIPLIERS, k \in {1, 3} }
    \cup { <<"f","r","a","g","i","l","e">> }
\* <<weight, volume>>: 10 t, 5 t and 0.16 t, without a volume, with a volume of 0,
\* at 6 m3 per tonne and above it
WeightsAndVolumes ==
    { <<1000, None>>, <<1000, Some(0)>>, <<1000, Some(60)>>, <<1000, Some(80)>>,
      <<500, None>>, <<500, Some(0)>>, <<500, Some(30)>>, <<500, Some(80)>>,
      <<16, None>>, <<16, Some(8)>> }
\* The arguments of a pricing call.  Some of the prices have a fraction of a
\* cent to round; none lies on an exact half cent, where the result of the
\* binary multiplication by 1.15 decides which way round(., 2) goes.
PriceArguments ==
    { [op |-> "price", base_price_per_kg |-> b, weight |-> wv[1], cargo_type |-> c,
       shipping_date |-> d, volume |-> wv[2]] :
        b \in {250, 312}, wv \in WeightsAndVolumes, c \in CargoTypes, d \in ShippingDates }

\* validate_weight(weight): no weight, not a number, and the values around the limits
WeightArguments ==
    { [op |-> "weight", weight |-> w] :
        w \in {None, Some(NaN), Some(-100), Some(0), Some(1), Some(9), Some(10), Some(500),
               Some(10000), Some(10001)} }
Locations ==
    { <<>>, <<" ">>, <<" "," ">>,
      JFK, Lower(JFK), <<"n","y","c">>, <<" ","n","y","c"," ">>, <<" ","j","f","k">>,
      <<"l","a">>, <<"l","a"," ">>, <<"L","A","X">>, <<"a","b","1">>, <<"a","b">>,
      NewYork, Upper(NewYork), London, <<"T","o","k","y","o">>,
      <<"U","n","k","n","o","w","n"," ","C","i","t","y">>,
      <<"ß","a","b">>, <<"a","ß">>, <<"語","語","語">>, <<"語","a","b">> }
LocationArguments ==
    { [op |-> "location", location |-> l] : l \in {None} \cup {Some(x) : x \in Locations} }

InitFunctions ==
    /\ bookings = <<>>
    /\ routes = Routes0
    /\ clock = 1
    /\ today = Today0
    /\ client = [accumulated_slots |-> None, confirmation_data |-> None]
    /\ req \in {Some(a) : a \in PriceArguments \cup WeightArguments \cup LocationArguments}
    /\ resp = None
    /\ handlers = [w \in Workers |-> IdleHandler]

ReturnedSoFar == IF resp = None THEN <<>> ELSE Val(resp)
\* the call of function name on the arguments of kind op returns value
Call(op, name, value) ==
    /\ Val(req).op = op
    /\ name \notin DOMAIN ReturnedSoFar
    /\ resp' = Some([k \in DOMAIN ReturnedSoFar \cup {name} |->
                        IF k = name THEN value ELSE ReturnedSoFar[k]])
    /\ UNCHANGED <<bookings, routes, clock, today, client, req, handlers>>

CalculatePrice ==
    Call("price", "calculate_price",
         calculate_price(Val(req).base_price_per_kg, Val(req).weight, Val(req).cargo_type,
                         Val(req).shipping_date, Val(req).volume))
GetPriceBreakdown ==
    Call("price", "get_price_breakdown",
         get_price_breakdown(Val(req).base_price_per_kg, Val(req).weight, Val(req).cargo_type,
                             Val(req).shipping_date, Val(req).volume))

ValidateWeight == Call("weight", "validate_weight", validate_weight(Val(req).weight))
ValidateLocation == Call("location", "validate_location", validate_location(Val(req).location))

NextFunctions == CalculatePrice \/ GetPriceBreakdown \/ ValidateWeight \/ ValidateLocation
SpecFunctions == InitFunctions /\ [][NextFunctions]_vars

(***************************************************************************)
(* Properties.  A state with req # None is the state right after an        *)
(* operation was served: req holds its request and resp its outcome.       *)
(***************************************************************************)
Served(op) == req # None /\ resp # None /\ Val(req).op = op
\* a conversation turn was served and answered with a conversation response
Answered == Served("conversation") /\ Val(resp).outcome = "returned"
Body == Val(Val(resp).body)
\* what the extractor handed to the turn
ExtractedOf(request) == extract_intent_and_slots(request.llm)
ReportedIntent(request) ==
    IF ExtractedOf(request).outcome = "returned"
    THEN Val(ExtractedOf(request).body).intent_type
    ELSE ""
ReportedSlots(request) == Val(ExtractedOf(request).body).slots
\* the turn resolves no pending confirmation: it goes to the intent dispatch
ReachesDispatch(request) ==
    /\ ExtractedOf(request).outcome = "returned"
    /\ ~AffirmsPending(request, "book")
    /\ ~AffirmsPending(request, "cancel")
    /\ ~DeclinesPending(request)
\* the step serves a conversation turn
TurnStep == req = None /\ req' # None /\ Val(req').op = "conversation"
ConfirmRequestTexts ==
    {"Please confirm to proceed. The total price is",
     "Are you sure you want to cancel booking"}
ClarificationTexts ==
    {"clarification_question", "I need some more information. Please provide"}

\* C1: a conversation turn that reaches the intent dispatch with intent book or
\* cancel leaves the booking store exactly as it was, also when every required
\* field is present and the turn asks for the confirmation.
C1_DispatchNeverWrites ==
    [][ (/\ TurnStep
         /\ ReachesDispatch(Val(req'))
         /\ ReportedIntent(Val(req')) \in {"book", "cancel"})
        => bookings' = bookings ]_vars

\* a book turn with every required field present was dispatched while the store
\* held a booking
C1_Witness ==
    /\ Answered
    /\ ReachesDispatch(Val(req))
    /\ ReportedIntent(Val(req)) = "book"
    /\ Body.needs_confirmation
    /\ bookings # <<>>

\* C2: a direct book or cancel call with confirmed = false is answered with the
\* 400 'requires confirmation' error and leaves the booking store unchanged,
\* whatever its other fields are (valid or not, id known or not).
C2_UnconfirmedRejected ==
    [][ (/\ req = None
         /\ req' # None
         /\ Val(req').op \in {"book", "cancel"}
         /\ ~Val(req').body["confirmed"])
        => /\ resp' = Some(HTTPException(BadRequest,
                              IF Val(req').op = "book"
                              THEN BookingUnconfirmed
                              ELSE CancellationUnconfirmed))
           /\ bookings' = bookings ]_vars

\* an unconfirmed book call whose origin no validation accepts is answered with
\* the confirmation error
C2_Witness ==
    /\ Served("book")
    /\ ~Val(req).body["confirmed"]
    /\ ~validate_location(Some(Val(req).body["origin"])).valid
    /\ Val(resp).detail = BookingUnconfirmed

\* C3: with the caller echoing accumulated_slots, a slot it carries that the
\* extractor does not overwrite in this turn is present, with its value, in the
\* accumulated_slots of the response, whichever branch handles the turn.
C3_MonotonicAccumulation ==
    Answered =>
        \A k \in DOMAIN OrEmpty(Val(req).accumulated_slots) :
            k \notin DOMAIN ReportedSlots(Val(req)) =>
                /\ Body.accumulated_slots # None
                /\ k \in DOMAIN Val(Body.accumulated_slots)
                /\ Val(Body.accumulated_slots)[k] = Val(Val(req).accumulated_slots)[k]

\* C4: every conversation response carries the merged accumulated_slots mapping.
C4_EveryBranchReturnsSlots ==
    Answered =>
        Body.accumulated_slots =
            Some(MergeSlots(Val(req).accumulated_slots, ReportedSlots(Val(req))))

C6_QuoteMissingRecomputed ==
    (/\ Served("conversation")
     /\ ReachesDispatch(Val(req))
     /\ ReportedIntent(Val(req)) = "quote")
    => /\ (\E k \in Range(RequiredSlots) :
              k \notin DOMAIN MergeSlots(Val(req).accumulated_slots,
                                         ReportedSlots(Val(req))))
          => /\ Val(resp).outcome = "returned"
             /\ Body.intent = "quote"
             /\ Body.response[1] \in ClarificationTexts
             /\ Body.data = None \/ "price" \notin DOMAIN Val(Body.data)
       /\ (/\ Val(resp).outcome = "returned"
           /\ Body.response[1] = "I need some more information. Please provide")
          => \A i \in DOMAIN Body.response[2] :
                ~Truthy(Body.response[2][i],
                        Get(MergeSlots(Val(req).accumulated_slots, ReportedSlots(Val(req))),
                            Body.response[2][i]))

\* C7: every conversation turn for which the extractor produced an output ends
\* with a conversation response, whatever pending_confirmation the caller sent.
C7_TurnAlwaysAnswers ==
    (Served("conversation") /\ Val(req).llm # None) => Val(resp).outcome = "returned"

\* C8: when the extractor call fails, extract_intent_and_slots returns the
\* fallback (intent clarification, no slots, no missing fields, the generic
\* question) and a turn with nothing pending answers with that question.
C8_ExtractorFailureFallsBack ==
    (/\ Served("conversation")
     /\ Val(req).llm = None
     /\ ~HasPending(Val(req)))
    => /\ ExtractedOf(Val(req)) =
            Returned(LLMResponse("clarification", <<>>, <<>>, Some(FallbackQuestion)))
       /\ Val(resp).outcome = "returned"
       /\ Body.intent = "clarification"
       /\ Body.response = <<"clarification_question", FallbackQuestion>>

\* C9: a turn whose message affirms a pending confirmation of type book is
\* answered with intent book, needs_confirmation false and no confirmation_data;
\* either one booking with status confirmed is appended and data holds its id
\* and price, or the store is unchanged and the response text carries the error.
C9_AffirmedBookResolution ==
    [][ (/\ TurnStep
         /\ Val(req').llm # None
         /\ AffirmsPending(Val(req'), "book"))
        => /\ Val(resp').outcome = "returned"
           /\ Val(Val(resp').body).intent = "book"
           /\ ~Val(Val(resp').body).needs_confirmation
           /\ Val(Val(resp').body).confirmation_data = None
           /\ \/ /\ Len(bookings') = Len(bookings) + 1
                 /\ SubSeq(bookings', 1, Len(bookings)) = bookings
                 /\ bookings'[Len(bookings')].status = "confirmed"
                 /\ Val(Val(resp').body).data =
                       Some([booking_id |-> bookings'[Len(bookings')].booking_id,
                             price |-> bookings'[Len(bookings')].price])
              \/ /\ bookings' = bookings
                 /\ Val(Val(resp').body).response[1] = "Error creating booking" ]_vars

\* C10: a turn whose message affirms a pending confirmation of type cancel is
\* answered with intent cancel and needs_confirmation false; a stored id that is
\* well-formed, known and not cancelled has its booking set to cancelled, and
\* any other leaves the store unchanged with the error as the response text.
C10_AffirmedCancelResolution ==
    [][ (/\ TurnStep
         /\ Val(req').llm # None
         /\ AffirmsPending(Val(req'), "cancel"))
        => /\ Val(resp').outcome = "returned"
           /\ Val(Val(resp').body).intent = "cancel"
           /\ ~Val(Val(resp').body).needs_confirmation
           /\ \/ \E i \in DOMAIN bookings :
                    /\ bookings[i].status # "cancelled"
                    /\ bookings[i].booking_id =
                          Upper(Val(Val(req').pending_confirmation)["booking_id"])
                    /\ bookings' = [bookings EXCEPT ![i].status = "cancelled",
                                                    ![i].updated_at = clock]
              \/ /\ bookings' = bookings
                 /\ Val(Val(resp').body).response[1] = "Error cancelling booking" ]_vars

\* the response of the served turn, in a step that serves one
Body1 == Val(Val(resp').body)
\* the served turn with its pending confirmation taken away
WithoutPending(request) == [request EXCEPT !.pending_confirmation = None]
\* the stored booking a cancel names (0 if none)
Named(id) == FindBooking(bookings, Upper(id))
\* the step serves a confirmed direct cancel of id
DirectCancelStep(id) ==
    /\ req = None
    /\ req' # None
    /\ Val(req').op = "cancel"
    /\ Val(req').body = [booking_id |-> id, confirmed |-> TRUE]
\* the step serves a turn that affirms a pending cancel of id
AffirmedCancelStep(id) ==
    /\ TurnStep
    /\ ExtractedOf(Val(req')).outcome = "returned"
    /\ AffirmsPending(Val(req'), "cancel")
    /\ Get(Val(Val(req').pending_confirmation), "booking_id") = Some(id)

\* C11: a turn whose message declines a pending confirmation (a negation token and
\* no affirmation token) leaves the booking store unchanged and is answered with
\* intent clarification, needs_confirmation false and no confirmation_data,
\* whatever intent the extractor reported.
C11_DeclineDropsPending ==
    [][ (/\ TurnStep
         /\ ExtractedOf(Val(req')).outcome = "returned"
         /\ DeclinesPending(Val(req')))
        => /\ bookings' = bookings
           /\ Val(resp').outcome = "returned"
           /\ Body1.intent = "clarification"
           /\ ~Body1.needs_confirmation
           /\ Body1.confirmation_data = None ]_vars

\* a pending cancel of a stored, confirmed booking was declined in a turn for
\* which the extractor reported intent book
C11_Witness ==
    /\ Answered
    /\ DeclinesPending(Val(req))
    /\ ReportedIntent(Val(req)) = "book"
    /\ PendingType(Val(req)) = "cancel"
    /\ \E i \in DOMAIN bookings :
          /\ Get(Val(Val(req).pending_confirmation), "booking_id")
                = Some(bookings[i].booking_id)
          /\ bookings[i].status = "confirmed"
    /\ Body.intent = "clarification"

\* C12: a turn that carries a pending confirmation and whose message holds neither
\* an affirmation nor a negation token is answered exactly as the same turn
\* without the pending confirmation, and leaves the booking store unchanged.
C12_AmbiguousFallsThrough ==
    [][ (/\ TurnStep
         /\ HasPending(Val(req'))
         /\ ~IsConfirmed(Val(req').message)
         /\ ~IsCancelled(Val(req').message))
        => /\ bookings' = bookings
           /\ resp' = Some(conversation(WithoutPending(Val(req')), bookings, routes,
                                        today, clock, CHOOSE t \in Tokens : TRUE).out) ]_vars

\* an ambiguous message with a pending book confirmation was answered by the
\* track branch of the dispatch
C12_Witness ==
    /\ Answered
    /\ HasPending(Val(req))
    /\ PendingType(Val(req)) = "book"
    /\ ~IsConfirmed(Val(req).message)
    /\ ~IsCancelled(Val(req).message)
    /\ Body.intent = "track"
    /\ Body.data # None

\* C13: a confirmed cancel of a booking that is already cancelled, through the
\* direct call or through an affirmed pending cancel, is answered with the
\* 'already cancelled' error and leaves the store (status and updated_at) as it was.
C13_CancelTwiceRejected ==
    [][ \A id \in BookingIds :
          (/\ Named(id) # 0
           /\ bookings[Named(id)].status = "cancelled")
          => /\ DirectCancelStep(id)
                => /\ bookings' = bookings
                   /\ resp' = Some(HTTPException(BadRequest, "Booking is already cancelled"))
             /\ AffirmedCancelStep(id)
                => /\ bookings' = bookings
                   /\ Val(resp').outcome = "returned"
                   /\ Body1.intent = "cancel"
                   /\ Body1.response =
                        <<"Error cancelling booking", "Booking is already cancelled">> ]_vars

\* an affirmed pending cancel of an already cancelled booking was answered with
\* the error text
C13_Witness ==
    /\ Answered
    /\ AffirmsPending(Val(req), "cancel")
    /\ Body.response = <<"Error cancelling booking", "Booking is already cancelled">>
    /\ \E i \in DOMAIN bookings :
          /\ bookings[i].status = "cancelled"
          /\ bookings[i].booking_id = Val(Val(req).pending_confirmation)["booking_id"]

\* C14: in every step every stored booking stays in the store under its id, and
\* its status either stays or goes from confirmed to cancelled; a new booking
\* enters with status confirmed.
C14_StatusOnlyConfirmedToCancelled ==
    [][ /\ Len(bookings') >= Len(bookings)
        /\ \A i \in DOMAIN bookings :
              /\ bookings'[i].booking_id = bookings[i].booking_id
              /\ \/ bookings'[i].status = bookings[i].status
                 \/ /\ bookings[i].status = "confirmed"
                    /\ bookings'[i].status = "cancelled"
        /\ \A i \in (DOMAIN bookings') \ (DOMAIN bookings) :
              bookings'[i].status = "confirmed" ]_vars

\* a booking was cancelled by the operation just served and is still stored
C14_Witness ==
    /\ Served("cancel")
    /\ Val(resp).outcome = "returned"
    /\ \E i \in DOMAIN bookings :
          /\ bookings[i].status = "cancelled"
          /\ bookings[i].booking_id = Upper(Val(req).body["booking_id"])

\* the step serves a confirmed direct create-booking call
CreateStep ==
    /\ req = None
    /\ req' # None
    /\ Val(req').op = "book"
    /\ Val(req').body["confirmed"]

Sent == OrEmpty(Val(req).accumulated_slots)
Reported == ReportedSlots(Val(req))
Merged == Val(Body.accumulated_slots)

\* C19: in the response of a dispatched turn every field of accumulated_slots holds
\* the extractor's value when the extractor reported the field, and else the
\* value the caller sent; no other field is present.
C19_LastNonNullWins ==
    (Answered /\ ReachesDispatch(Val(req)))
    => /\ Body.accumulated_slots # None
       /\ DOMAIN Merged = (DOMAIN Sent) \cup (DOMAIN Reported)
       /\ \A k \in DOMAIN Merged :
             Merged[k] = IF k \in DOMAIN Reported THEN Reported[k] ELSE Sent[k]

\* a dispatched turn in which the extractor replaced one accumulated value and
\* left another alone
C19_Witness ==
    /\ Answered
    /\ ReachesDispatch(Val(req))
    /\ \E k \in (DOMAIN Sent) \cap (DOMAIN Reported) : Sent[k] # Reported[k]
    /\ \E k \in (DOMAIN Sent) \ (DOMAIN Reported) : Merged[k] = Sent[k]

\* C20: in a dispatched turn a field the caller sent with a non-empty value keeps
\* that value unless the extractor reported a non-empty value for it.
C20_EmptyNeverOverwrites ==
    (Answered /\ ReachesDispatch(Val(req)))
    => \A k \in DOMAIN Sent :
          (/\ Truthy(k, Some(Sent[k]))
           /\ ~Truthy(k, Get(Reported, k)))
          => /\ Body.accumulated_slots # None
             /\ k \in DOMAIN Merged
             /\ Merged[k] = Sent[k]

\* a concurrent handler that has finished operation op
Finished(w, op) == handlers[w].pc = "done" /\ handlers[w].op = op
Succeeded(w) == Val(handlers[w].out).outcome = "returned"
\* two finished cancels of the same booking, each arrived while it was confirmed
RacingCancels(w1, w2) ==
    /\ w1 # w2
    /\ Finished(w1, "cancel")
    /\ Finished(w2, "cancel")
    /\ Upper(handlers[w1].request["booking_id"]) = Upper(handlers[w2].request["booking_id"])
    /\ handlers[w1].arrived = "confirmed"
    /\ handlers[w2].arrived = "confirmed"

\* C16: under every interleaving of the steps of concurrent create-booking
\* handlers, no two stored bookings have the same booking_id.
C16_BookingIdsUnique ==
    \A i, j \in DOMAIN bookings :
        i # j => bookings[i].booking_id # bookings[j].booking_id

\* two create-booking handlers had prepared the same id before either committed:
\* one is stored, the other was refused by the commit
C16_Witness ==
    \E w1, w2 \in Workers :
        /\ w1 # w2
        /\ Finished(w1, "book")
        /\ Finished(w2, "book")
        /\ handlers[w1].local # <<>>
        /\ handlers[w2].local # <<>>
        /\ handlers[w1].local.booking_id = handlers[w2].local.booking_id
        /\ Succeeded(w1)
        /\ Val(handlers[w2].out) = Raised("IntegrityError")
        /\ \E i \in DOMAIN bookings :
              bookings[i].booking_id = handlers[w1].local.booking_id

\* C17: of two concurrent cancels of the same confirmed booking, exactly one
\* reports success and the other is rejected as already cancelled, however their
\* read and write steps interleave.
C17_OneCancelWins ==
    \A w1, w2 \in Workers :
        RacingCancels(w1, w2)
        => \/ /\ Succeeded(w1)
              /\ Val(handlers[w2].out) =
                    HTTPException(BadRequest, "Booking is already cancelled")
           \/ /\ Succeeded(w2)
              /\ Val(handlers[w1].out) =
                    HTTPException(BadRequest, "Booking is already cancelled")

\* C18: once a cancel that arrived for a confirmed booking has finished, the
\* booking is stored with status cancelled, whatever other cancels and track
\* reads ran between its steps.
C18_CancelledWhateverTheOrder ==
    \A w \in Workers :
        (Finished(w, "cancel") /\ handlers[w].arrived = "confirmed")
        => StatusOf(bookings, handlers[w].request["booking_id"]) = "cancelled"

\* two cancels of the same confirmed booking both read it before either wrote,
\* and both have finished
C18_Witness ==
    \E w1, w2 \in Workers :
        /\ RacingCancels(w1, w2)
        /\ Succeeded(w1)
        /\ Succeeded(w2)
        /\ StatusOf(bookings, handlers[w1].request["booking_id"]) = "cancelled"

\* the slots the served turn merged: the request's accumulated slots overwritten
\* by the extractor's
MergedOf == MergeSlots(Val(req).accumulated_slots, ReportedSlots(Val(req)))
\* the served turn went to the dispatch branch of the intent
DispatchedAs(intent) ==
    /\ Served("conversation")
    /\ ReachesDispatch(Val(req))
    /\ ReportedIntent(Val(req)) = intent
AllRequiredGiven == \A k \in Range(RequiredSlots) : Truthy(k, Get(MergedOf, k))
DraftAccepted == ValidateShipment(Restrict(MergedOf, QuoteFields), routes, today).valid

\* C21: a book turn that reaches the dispatch answers with intent book; with one
\* of the five required fields missing from the merged slots it is a prompt
\* without confirmation; with all five given and the draft accepted by the
\* validation and the route lookup it asks for confirmation and its
\* confirmation_data is of type book with the draft equal to the merged slots'
\* eight draft fields; and no response carries a book confirmation otherwise.
C21_BookDraftOrPrompt ==
    /\ DispatchedAs("book") =>
          /\ Val(resp).outcome = "returned"
          /\ Body.intent = "book"
          /\ ~AllRequiredGiven =>
                /\ ~Body.needs_confirmation
                /\ Body.confirmation_data = None
                /\ Body.response[1] \in {"clarification_question", "To create a booking, I need"}
          /\ (AllRequiredGiven /\ DraftAccepted) =>
                /\ Body.needs_confirmation
                /\ Body.confirmation_data =
                      Some([type |-> "book", data |-> Restrict(MergedOf, DraftFields)])
          /\ (AllRequiredGiven /\ ~DraftAccepted) =>
                /\ ~Body.needs_confirmation
                /\ Body.confirmation_data = None
    /\ (/\ Answered
        /\ Body.confirmation_data # None
        /\ Val(Body.confirmation_data)["type"] = "book")
       => (DispatchedAs("book") /\ AllRequiredGiven /\ DraftAccepted)

\* a book turn completed the draft out of the accumulated slots and the
\* extractor's, and was asked to confirm a draft that names the customer
C21_Witness ==
    /\ DispatchedAs("book")
    /\ Sent # <<>>
    /\ Reported # <<>>
    /\ Sent # MergedOf
    /\ Body.needs_confirmation
    /\ Val(Body.confirmation_data)["data"]["customer_name"] = Ann

\* C22: a cancel turn that reaches the dispatch without a booking_id in the
\* merged slots is answered with the prompt for it, intent cancel and no
\* confirmation; with a booking_id it is answered with needs_confirmation and
\* confirmation_data of type cancel carrying exactly that booking_id, whatever
\* the store holds for it; and the step leaves the booking store as it was.
C22_CancelAsksFirst ==
    [][(TurnStep /\ DispatchedAs("cancel")') =>
          /\ bookings' = bookings
          /\ clock' = clock
          /\ Val(resp').outcome = "returned"
          /\ Body1.intent = "cancel"
          /\ Body1.accumulated_slots = Some(MergedOf')
          /\ IF Truthy("booking_id", Get(MergedOf', "booking_id"))
             THEN /\ Body1.needs_confirmation
                  /\ Body1.confirmation_data =
                        Some([type |-> "cancel", booking_id |-> MergedOf'["booking_id"]])
                  /\ Body1.response =
                        <<"Are you sure you want to cancel booking", MergedOf'["booking_id"]>>
             ELSE /\ ~Body1.needs_confirmation
                  /\ Body1.confirmation_data = None
                  /\ Body1.response[1] = "What's your booking ID?"
      ]_vars

\* a cancel turn named an id that no stored booking has and that the id pattern
\* rejects, while a booking was stored, and was asked to confirm it all the same
C22_Witness ==
    /\ DispatchedAs("cancel")
    /\ bookings # <<>>
    /\ Get(MergedOf, "booking_id") = Some(ShortId)
    /\ ~validate_booking_id(Some(ShortId)).valid
    /\ Body.needs_confirmation
    /\ Val(Body.confirmation_data)["booking_id"] = ShortId

\* the step serves a quote, track or list request, or a conversation turn that
\* goes to the greeting, quote, track or clarification branch of the dispatch
ReadOnlyStep ==
    /\ req = None
    /\ req' # None
    /\ \/ Val(req').op \in {"quote", "track", "list"}
       \/ /\ Val(req').op = "conversation"
          /\ ReachesDispatch(Val(req'))
          /\ ReportedIntent(Val(req')) \notin {"book", "cancel"}
TrackErrors == {"Booking not found", "Invalid booking ID format"}

\* C23: a step served by the greeting, quote, track or clarification branch, or
\* by the direct quote, track or list operation, changes no booking and no
\* route and returns no response with needs_confirmation true; a track turn
\* whose booking id is malformed or names no stored booking is answered with
\* intent track and the error as the response text.
C23_ReadOnlyBranches ==
    [][ReadOnlyStep =>
          /\ bookings' = bookings
          /\ routes' = routes
          /\ clock' = clock
          /\ (Val(req').op = "conversation" /\ Val(resp').outcome = "returned") =>
                /\ ~Body1.needs_confirmation
                /\ Body1.confirmation_data = None
          /\ (/\ Val(req').op = "conversation"
              /\ ReportedIntent(Val(req')) = "track"
              /\ Truthy("booking_id", Get(MergedOf', "booking_id"))
              /\ \/ ~validate_booking_id(Get(MergedOf', "booking_id")).valid
                 \/ FindBooking(bookings, Upper(MergedOf'["booking_id"])) = 0)
             => /\ Val(resp').outcome = "returned"
                /\ Body1.intent = "track"
                /\ Body1.response[1] = "Error tracking booking"
                /\ Body1.response[2] \in TrackErrors
                /\ Body1.data = None
      ]_vars

\* a track turn named a well-formed id that no stored booking has, while another
\* booking was stored, and was answered with the not-found text
C23_Witness ==
    /\ DispatchedAs("track")
    /\ bookings # <<>>
    /\ Truthy("booking_id", Get(MergedOf, "booking_id"))
    /\ validate_booking_id(Get(MergedOf, "booking_id")).valid
    /\ FindBooking(bookings, Upper(MergedOf["booking_id"])) = 0
    /\ Body.intent = "track"
    /\ Body.response = <<"Error tracking booking", "Booking not found">>

ResponseIntents == {"greeting", "quote", "book", "cancel", "track", "clarification"}
DispatchedIntents == {"greeting", "quote", "book", "cancel", "track"}
QuestionOf(request) == Val(ExtractedOf(request).body).clarification_question

\* C24: every conversation response has one of the six intents greeting, quote,
\* book, cancel, track, clarification; a turn that resolves no pending
\* confirmation and whose extracted intent is none of greeting, quote, book,
\* cancel, track is answered with intent clarification, without confirmation,
\* and with the extractor's clarification question when it gave one and the
\* generic fallback text when it gave none.
C24_IntentsAndClarification ==
    /\ Answered => Body.intent \in ResponseIntents
    /\ (/\ Served("conversation")
        /\ ReachesDispatch(Val(req))
        /\ ReportedIntent(Val(req)) \notin DispatchedIntents)
       => /\ Val(resp).outcome = "returned"
          /\ Body.intent = "clarification"
          /\ ~Body.needs_confirmation
          /\ Body.confirmation_data = None
          /\ Body.response =
                IF QuestionOf(Val(req)) # None /\ Val(QuestionOf(Val(req))) # ""
                THEN <<"clarification_question", Val(QuestionOf(Val(req)))>>
                ELSE <<GenericFallback, "">>

\* the extractor reported an intent outside the known ones together with a
\* clarification question, and the turn was answered with that question
C24_Witness ==
    /\ DispatchedAs("complaint")
    /\ QuestionOf(Val(req)) # None
    /\ Body.intent = "clarification"
    /\ Body.response = <<"clarification_question", Val(QuestionOf(Val(req)))>>

\* the functions called on the arguments in req have both returned
Arguments == Val(req)
Priced ==
    /\ req # None
    /\ Arguments.op = "price"
    /\ {"calculate_price", "get_price_breakdown"} \subseteq DOMAIN ReturnedSoFar
Price == ReturnedSoFar["calculate_price"]
Terms == ReturnedSoFar["get_price_breakdown"]

\* C25: for every base price, weight, cargo type, date and volume, the total of
\* the price breakdown equals the price the price function returns.
C25_BreakdownTotalIsPrice == Priced => Terms.total = Price

\* a peak-season price of special cargo with a volume surcharge, for which the
\* breakdown has a cargo, a volume and a peak term
C25_Witness ==
    /\ Priced
    /\ Terms.cargo_surcharge > 0
    /\ Terms.volume_surcharge > 0
    /\ Terms.peak_season_surcharge > 0
    /\ Terms.total = Price

\* the multiplier the claim gives for a cargo type, in tenths
ClaimedMultiplier(cargo_type) ==
    CASE Lower(cargo_type) = <<"g","e","n","e","r","a","l">> -> 10
      [] Lower(cargo_type) = <<"p","e","r","i","s","h","a","b","l","e">> -> 15
      [] Lower(cargo_type) = <<"h","a","z","a","r","d","o","u","s">> -> 20
      [] Lower(cargo_type) = <<"v","e","h","i","c","l","e","s">> -> 18
      [] Lower(cargo_type) = <<"l","i","v","e","s","t","o","c","k">> -> 25
      [] OTHER -> 10
\* the peak multiplier the claim gives for a date, in percent
ClaimedPeak(shipping_date) ==
    IF /\ strptime(shipping_date) # None
       /\ Val(strptime(shipping_date))[2] \in {6, 7, 8, 11, 12}
    THEN 115 ELSE 100
Example(base_price_per_kg, weight, cargo_type, shipping_date) ==
    /\ Arguments.base_price_per_kg = base_price_per_kg
    /\ Arguments.weight = weight
    /\ Arguments.cargo_type = cargo_type
    /\ Arguments.shipping_date = shipping_date
    /\ Arguments.volume = None

\* C26: the price is (base price per kg x weight in kg x cargo multiplier +
\* volume surcharge) x peak multiplier rounded to the cent, with the multipliers
\* 1.0, 1.5, 2.0, 1.8, 2.5 of general, perishable, hazardous, vehicles, livestock
\* (1.0 for any other type) and the peak multiplier 1.15 when the date parses to
\* a month in 6, 7, 8, 11, 12 and 1.0 otherwise; 2.50/kg, 5 t, general,
\* 2026-02-15 costs 12500.00 and 2.50/kg, 5 t, perishable, 2026-12-15 costs
\* 21562.50.
C26_PriceFormula ==
    Priced =>
        /\ Price = RoundedCents(
                      2 * (Arguments.base_price_per_kg * (10 * Arguments.weight)
                           * ClaimedMultiplier(Arguments.cargo_type))
                      + 20 * Terms.volume_surcharge,
                      ClaimedPeak(Arguments.shipping_date))
        /\ Example(250, 500, General, Feb15) => Price = 1250000
        /\ Example(250, 500, <<"p","e","r","i","s","h","a","b","l","e">>, Dec15)
              => Price = 2156250

\* the claim's peak-season example has been priced
C26_Witness ==
    /\ Priced
    /\ Example(250, 500, <<"p","e","r","i","s","h","a","b","l","e">>, Dec15)
    /\ Price = 2156250

\* C27: the volume surcharge is 0 without a volume and for a volume of at most
\* 6 m3 per tonne of weight; above that it is (volume x 167 - weight in kg) x
\* base price per kg x 0.5; 10 t with 80 m3 at 2.50/kg has a surcharge of
\* 4200.00.
C27_VolumeSurcharge ==
    Priced =>
        /\ IF Arguments.volume # None
              /\ Val(Arguments.volume) * 100 > Arguments.weight * 6
           THEN 2 * Terms.volume_surcharge =
                   (Val(Arguments.volume) * 167 - 10 * Arguments.weight)
                   * Arguments.base_price_per_kg
           ELSE Terms.volume_surcharge = 0
        /\ (/\ Arguments.weight = 1000
            /\ Arguments.volume = Some(80)
            /\ Arguments.base_price_per_kg = 250)
           => Terms.volume_surcharge = 420000

\* 10 t with 60 m3 is exactly at 6 m3 per tonne: its volumetric weight of
\* 10020 kg exceeds the 10000 kg and yet no surcharge is charged
C27_Witness ==
    /\ Priced
    /\ Arguments.weight = 1000
    /\ Arguments.volume = Some(60)
    /\ Val(Arguments.volume) * 167 > 10 * Arguments.weight
    /\ Terms.volume_surcharge = 0

\* C28 (amended): the volume surcharge is added to the cost after the cargo-type
\* multiplier and before the peak-season multiplier: the price is (base cost x
\* cargo multiplier + volume surcharge) x peak multiplier, so the peak
\* multiplier alone scales the surcharge.
C28_SurchargeAfterCargoMultiplier ==
    Priced =>
        Price = RoundedCents(2 * (Terms.base_cost * Terms.cargo_multiplier)
                             + 20 * Terms.volume_surcharge,
                             Terms.peak_season_multiplier)

\* a peak-season price of hazardous cargo with a volume surcharge
C28_Witness ==
    /\ Priced
    /\ Terms.cargo_multiplier = 20
    /\ Terms.peak_season_multiplier = 115
    /\ Terms.volume_surcharge > 0
    /\ Price = RoundedCents(2 * (Terms.base_cost * 20) + 20 * Terms.volume_surcharge, 115)

\* C28 as stated: the volume surcharge is added to the cost before the
\* cargo-type and the peak-season multiplier are applied: the price is (base
\* cost + volume surcharge) x cargo multiplier x peak multiplier.
C28_AsStated ==
    Priced =>
        Price = RoundedCents(2 * ((Terms.base_cost + Terms.volume_surcharge)
                                  * Terms.cargo_multiplier),
                             Terms.peak_season_multiplier)

\* the validator named has returned for the arguments in req
Validated(op, name) ==
    /\ req # None
    /\ Arguments.op = op
    /\ name \in DOMAIN ReturnedSoFar
Weighed == Validated("weight", "validate_weight")
WeightResult == ReturnedSoFar["validate_weight"]

\* C29: validate_weight accepts a weight exactly when it lies between 0.1 and
\* 100 tonnes, both included (0.09 and 100.01 are rejected, 0.1 and 100.0 are
\* accepted), and rejects no weight, a weight of at most 0, a weight below 0.1
\* and a weight above 100 with four different messages.
C29_WeightRange ==
    Weighed =>
        /\ WeightResult.valid <=>
              /\ Arguments.weight # None
              /\ Val(Arguments.weight) # NaN
              /\ Val(Arguments.weight) >= 10
              /\ Val(Arguments.weight) <= 10000
        /\ Arguments.weight \in {Some(9), Some(10001)} => ~WeightResult.valid
        /\ Arguments.weight \in {Some(10), Some(10000)} => WeightResult.valid
        /\ Arguments.weight = None => WeightResult.error = "Weight is required"
        /\ Arguments.weight \in {Some(-100), Some(0)}
              => WeightResult.error = "Weight must be greater than 0"
        /\ Arguments.weight \in {Some(1), Some(9)}
              => WeightResult.error = "Minimum weight is 0.1 tonnes (100 kg)"
        /\ Arguments.weight = Some(10001)
              => WeightResult.error =
                    "Maximum weight is 100 tonnes. For larger shipments, please contact us directly."

Located == Validated("location", "validate_location")
LocationResult == ReturnedSoFar["validate_location"]
Blank(location) == location = None \/ Strip(Val(location)) = <<>>
IsCode(s) == Len(s) = 3 /\ IsAlpha(s)
InCityTable(s) == Lookup(LOCATION_MAPPINGS, Strip(Lower(s))) # None

\* C30: validate_location rejects an empty or blank input; accepts an input of 3
\* alphabetic characters as its upper-case form, before the city table is
\* looked at; accepts any other input whose trimmed lower-case form is in the
\* city table as the mapped code ("New York" as "JFK"); rejects every other
\* input unless its upper-case form is 3 alphabetic characters ("Unknown City"
\* is rejected); and every accepted result is 3 upper-case letters.
C30_LocationRules ==
    Located =>
        /\ Blank(Arguments.location) => ~LocationResult.valid
        /\ (~Blank(Arguments.location) /\ IsCode(Val(Arguments.location)))
              => LocationResult = Accept(Some(Upper(Val(Arguments.location))))
        /\ (/\ ~Blank(Arguments.location)
            /\ ~IsCode(Val(Arguments.location))
            /\ InCityTable(Val(Arguments.location)))
              => LocationResult =
                    Accept(Lookup(LOCATION_MAPPINGS, Strip(Lower(Val(Arguments.location)))))
        /\ (/\ ~Blank(Arguments.location)
            /\ ~IsCode(Val(Arguments.location))
            /\ ~InCityTable(Val(Arguments.location)))
              => IF IsCode(Upper(Val(Arguments.location)))
                 THEN LocationResult = Accept(Some(Upper(Val(Arguments.location))))
                 ELSE ~LocationResult.valid
        /\ Arguments.location = Some(NewYork) => LocationResult = Accept(Some(JFK))
        /\ Arguments.location = Some(<<"U","n","k","n","o","w","n"," ","C","i","t","y">>)
              => ~LocationResult.valid
        /\ LocationResult.valid =>
              /\ Len(Val(LocationResult.value)) = 3
              /\ \A i \in 1..3 : Val(LocationResult.value)[i] \in Range(UpperChars)

\* the booking id a served track or cancel request carries
RequestedId == IF Val(req).op = "track" THEN Val(req).booking_id ELSE Val(req).body.booking_id
\* the served request is a track, or a cancel that is confirmed
LooksUpById == Served("track") \/ (Served("cancel") /\ Val(req).body.confirmed)
\* the request was refused for its id's format
RefusedForFormat ==
    /\ Val(resp).outcome = "http_error"
    /\ Val(resp).status_code = BadRequest
    /\ Val(resp).detail = "Invalid booking ID format"

\* C31: track and cancel accept a booking id exactly when its upper-case form is
\* 6 to 12 characters of A-Z and 0-9 ("ABC123" is accepted, "AB12" is refused,
\* a lower-case id is accepted after upper-casing), and they look the booking
\* up by the upper-case id, so the lower-case form of a stored id finds that
\* booking.
C31_BookingIdFormat ==
    LooksUpById =>
        /\ RefusedForFormat <=> ~IsIdText(Upper(RequestedId))
        /\ RequestedId = <<"A","B","C","1","2","3">> => ~RefusedForFormat
        /\ RequestedId = ShortId => RefusedForFormat
        /\ (RequestedId = Lower(KnownId) /\ Named(KnownId) # 0) =>
              /\ ~(Val(resp).outcome = "http_error" /\ Val(resp).status_code = NotFound)
              /\ Val(resp).outcome = "returned" =>
                    Val(Val(resp).body).booking_id \in {KnownId, Lower(KnownId)}
              /\ Served("track") =>
                    Val(resp) = track_booking(KnownId, bookings)

\* the served turn's extractor call raised: call_ollama re-raises every failure
\* of the request, the 30 s timeout included
ExtractorCallFailed == Served("conversation") /\ Val(req).llm = None
\* the served turn resolves its pending confirmation
ResolvesPending ==
    \/ \E type \in {"book", "cancel"} : AffirmsPending(Val(req), type)
    \/ DeclinesPending(Val(req))

\* C32: a turn whose extractor call never answers, and is ended by the request
\* timeout, still returns a conversation response; unless the turn resolves a
\* pending confirmation, that response is the fallback clarification.
C32_TimedOutTurnFallsBack ==
    ExtractorCallFailed =>
        /\ Val(resp).outcome = "returned"
        /\ ~ResolvesPending =>
              /\ Body.intent = "clarification"
              /\ Body.response = <<"clarification_question", FallbackQuestion>>

\* the message of the turn holds an affirmation token and a negation token
HoldsBothTokens(request) == IsConfirmed(request.message) /\ IsCancelled(request.message)
\* the turn with its message replaced by a plain affirmation
PlainlyAffirmed(request) == [request EXCEPT !.message = <<"Y","e","s">>]

\* C33: a turn that carries a pending confirmation of type book or cancel and
\* whose message holds both an affirmation and a negation token is handled as
\* the affirmative turn: the pending booking or cancellation is carried out
\* exactly as for a plain "Yes"; the declining answer is given only to a
\* message with no affirmation token.
C33_AffirmationWins ==
    [][ (TurnStep /\ Val(req').llm # None /\ HasPending(Val(req')))
        => /\ (/\ PendingType(Val(req')) \in {"book", "cancel"}
               /\ HoldsBothTokens(Val(req')))
              => \E t \in Tokens :
                    /\ resp' = Some(conversation(PlainlyAffirmed(Val(req')), bookings,
                                                 routes, today, clock, t).out)
                    /\ bookings' = conversation(PlainlyAffirmed(Val(req')), bookings,
                                                routes, today, clock, t).bookings
           /\ resp' = Some(Returned(DeclinedReply))
              => ~IsConfirmed(Val(req').message) ]_vars

\* "cancel my booking" (negation "cancel", affirmation "ok" inside "booking") was
\* sent with a pending cancel of a stored booking, and that booking is cancelled
C33_Witness ==
    /\ Answered
    /\ HoldsBothTokens(Val(req))
    /\ HasPending(Val(req))
    /\ PendingType(Val(req)) = "cancel"
    /\ Body.intent = "cancel"
    /\ \E i \in DOMAIN bookings :
          /\ Get(Val(Val(req).pending_confirmation), "booking_id")
                = Some(bookings[i].booking_id)
          /\ bookings[i].status = "cancelled"
          /\ bookings[i].updated_at = clock - 1

\* a booking was created by the served request: by POST /book or by a turn that
\* affirmed a pending book confirmation
Created ==
    /\ Served("book") \/ Served("conversation")
    /\ Val(resp).outcome = "returned"
    /\ Served("conversation") => (Body.intent = "book" /\ Body.data # None)
\* the booking id the response of that request carries
ReturnedId == IF Served("book") THEN Body.booking_id ELSE Val(Body.data).booking_id
UpperHexChars == {"0","1","2","3","4","5","6","7","8","9","A","B","C","D","E","F"}
TokenHexLen == 8

\* C34: the id returned for a created booking is "CRG" followed by 8 upper-case
\* hexadecimal characters, passes the booking-id format check, and names the
\* booking just stored: track with that id returns it and a confirmed cancel
\* with that id cancels it.
C34_GeneratedIdLooksUp ==
    Created =>
        /\ Len(ReturnedId) = Len(IdPrefix) + TokenHexLen
        /\ SubSeq(ReturnedId, 1, Len(IdPrefix)) = IdPrefix
        /\ \A i \in (Len(IdPrefix) + 1)..Len(ReturnedId) : ReturnedId[i] \in UpperHexChars
        /\ validate_booking_id(Some(ReturnedId)) = Accept(None)
        /\ bookings[Len(bookings)].booking_id = ReturnedId
        /\ track_booking(ReturnedId, bookings) = TrackRow(Len(bookings), bookings)
        /\ cancel_booking([booking_id |-> ReturnedId, confirmed |-> TRUE], bookings, clock).bookings
              = SoftDelete(bookings, Len(bookings), clock)

\* a booking was created with an id that holds hexadecimal letters
C34_Witness ==
    /\ Created
    /\ ReturnedId = <<"C","R","G","A","1","B","2","C","3","D","4">>
    /\ Len(bookings) = 1
    /\ bookings[1].status = "confirmed"

\* the served turn asked the caller to confirm a booking draft
ConfirmationRequested == Answered /\ Body.intent = "book" /\ Body.needs_confirmation
\* the price the confirmation request states
StatedPrice == Body.response[2]
\* the next turn of a caller who echoes the response's confirmation_data and
\* accumulated_slots back and affirms; the extractor reports `answer`
EchoAffirmed(answer, token) ==
    conversation([op |-> "conversation",
                  message |-> <<"Y","e","s">>,
                  pending_confirmation |-> Body.confirmation_data,
                  accumulated_slots |-> Body.accumulated_slots,
                  llm |-> answer],
                 bookings, routes, today, clock, token)
\* that turn stores a booking
EchoCreates(answer, token) == Len(EchoAffirmed(answer, token).bookings) = Len(bookings) + 1
EchoedBooking(answer, token) == EchoAffirmed(answer, token).bookings[Len(bookings) + 1]

\* C35: the price stated in a book confirmation request equals the price stored
\* on the booking that is created when the same confirmation_data is echoed
\* back and affirmed while the route table and the date are as they were, and
\* equals the price that turn reports.
C35_StatedPriceIsBookedPrice ==
    ConfirmationRequested =>
        \A answer \in BriefLLMAnswers \ {None}, token \in Tokens :
            EchoCreates(answer, token) =>
                /\ EchoedBooking(answer, token).price = StatedPrice
                /\ Val(Val(EchoAffirmed(answer, token).out.body).data).price = StatedPrice

\* a confirmation was requested for a draft with a volume that is surcharged,
\* and affirming its echo stores a booking
C35_Witness ==
    /\ ConfirmationRequested
    /\ Val(Body.confirmation_data).data.volume = 40
    /\ StatedPrice >
          calculate_price(Val(FindRoute(routes, JFK, LHR)).base_price_per_kg,
                          Val(Body.confirmation_data).data.weight, General, Feb15, None)
    /\ \E answer \in BriefLLMAnswers \ {None}, token \in Tokens : EchoCreates(answer, token)

\* the draft of the turn's pending confirmation is accepted by BookingRequest and
\* passes the validation of create_booking
ValidDraft(request) ==
    /\ "data" \in DOMAIN Val(request.pending_confirmation)
    /\ "confirmed" \notin DOMAIN Val(request.pending_confirmation)["data"]
    /\ PydanticOk(RequestRequired, DOMAIN Val(request.pending_confirmation)["data"])
    /\ ValidateShipment(Val(request.pending_confirmation)["data"], routes, today).valid
\* the step serves a turn that affirms a pending book confirmation with a valid draft
AffirmedValidBookStep ==
    /\ TurnStep
    /\ Val(req').llm # None
    /\ AffirmsPending(Val(req'), "book")
    /\ ValidDraft(Val(req'))
\* `after` is `before` with one more booking, confirmed and under an id of its own
AddsOne(before, after) ==
    /\ Len(after) = Len(before) + 1
    /\ SubSeq(after, 1, Len(before)) = before
    /\ after[Len(after)].status = "confirmed"
    /\ \A i \in DOMAIN before : before[i].booking_id # after[Len(after)].booking_id
\* nothing was stored because the generated id is the id of a stored booking
AddsNone(before, result) ==
    /\ result.bookings = before
    /\ result.out = Raised("IntegrityError")
\* the same turn presented again to the store bks
Replayed(request, bks, clk, token) == conversation(request, bks, routes, today, clk, token)

IsUpperCode(s) == Len(s) = 3 /\ \A i \in DOMAIN s : s[i] \in Range(UpperChars)
\* the stored fields of booking b are normalized and valid, and its price is the
\* price function of its route's base price and its stored fields
StoredAsValidated(b) ==
    /\ IsUpperCode(b.origin)
    /\ IsUpperCode(b.destination)
    /\ b.origin # b.destination
    /\ FindRoute(routes, b.origin, b.destination) # None
    /\ b.weight >= MinWeight
    /\ b.weight <= MaxWeight
    /\ b.volume # None => (Val(b.volume) > 0 /\ Val(b.volume) <= MaxVolume)
    /\ b.cargo_type \in VALID_CARGO_TYPES
    /\ b.cargo_type = Lower(b.cargo_type)
    /\ b.price = calculate_price(Val(FindRoute(routes, b.origin, b.destination)).base_price_per_kg,
                                 b.weight, b.cargo_type, b.shipping_date, b.volume)

\* C37: in every reachable state every stored booking, confirmed or cancelled,
\* has an origin and a destination that are different 3-letter upper-case codes
\* of a pair in the route table, a weight from 0.1 to 100 tonnes, no volume or
\* a volume in (0, 1000], one of the five lower-case cargo types, and the price
\* the price function gives for the route's base price and the stored fields.
C37_StoredBookingsValid == \A i \in DOMAIN bookings : StoredAsValidated(bookings[i])

\* a booking was created from a request with a lower-case origin code, a city
\* name as destination and an upper-case cargo type
C37_Witness ==
    /\ Served("book")
    /\ Val(resp).outcome = "returned"
    /\ Val(req).body["origin"] = <<"l","h","r">>
    /\ Val(req).body["destination"] = NewYork
    /\ bookings[Len(bookings)].origin = LHR
    /\ bookings[Len(bookings)].destination = JFK
    /\ bookings[Len(bookings)].cargo_type = <<"h","a","z","a","r","d","o","u","s">>
    /\ bookings[Len(bookings)].weight = 1000
    /\ bookings[Len(bookings)].volume = None

====
